---- MODULE Spec2Model ----
(***************************************************************************)
(* Ledger / decision engine of the micro-cap portfolio scripts.            *)
(*                                                                         *)
(*   scripts/eod_repo.py            EOD logger: upsert_eod, stop_hit       *)
(*   scripts/build_daily_report.py  daily report: _stop_hit,               *)
(*                                  _sl_distance_pct, order suggestions    *)
(*                                                                         *)
(* Numbers are exact rationals [n, d] (d > 0, lowest terms); NaN is the    *)
(* record with d = 0.  Floating-point rounding is not modelled.  Calendar  *)
(* dates are day numbers.                                                  *)
(***************************************************************************)
EXTENDS Integers, Sequences, FiniteSets, TLC

VARIABLES
    eod_log,      \* eod/eod_log.csv: [exists, rows]
    lastKind,     \* branch taken by the last upsert_eod: "none" | "update" | "append"
    lastShift,    \* days by which the last upsert_eod moved the earliest date
    stop,         \* one stop-loss evaluation: its inputs and, once done, its results
    holdings,     \* holdings/holdings_repo.csv: rows Ticker, Antal, Inkopskurs, Stop_loss
    px,           \* the latest prices_raw table: rows ticker, close_sek
    wl_snap,      \* the watchlist snapshot of the price date
    wl_log,       \* eod/watchlist/watchlist_log.csv: rows date, ticker, close_sek
    rpc,          \* position of the daily report run
    merged,       \* holdings joined with prices, valued, with stop-loss state
    top_winners,  \* the ranked daily winners (t, pct, cur_price, inp)
    risk_flags,   \* the risk flags of the daily report (t, kind, v)
    global_dd,    \* drawdown from the first ledger row
    orders,       \* the order suggestions
    today,        \* date.today() of the runs
    prices_dir,   \* data/daily: date -> [exists, rows] of prices_raw_<date>.csv
    holdings_file, \* holdings/holdings_repo.csv: [exists, columns, rows]
    watchlist_file, \* holdings/watchlist.csv: [exists, rows]
    eod_run,      \* the last run of eod_repo.main: its outcome and its merged table
    race,         \* two unlocked EOD runs: their positions and what each has read
    hold_snaps,   \* eod/holdings: date -> [exists, rows] of holdings_<date>.csv
    daily_run,    \* the last snapshot/diff pass of build_daily_report.main
    watch_run,    \* the last run of watchlist_repo.main
    week_run      \* the last run of build_weekly_report.main

ledgerVars == <<eod_log, lastKind, lastShift>>

reportVars ==
    <<holdings, px, wl_snap, wl_log, rpc, merged, top_winners, risk_flags, global_dd,
      orders>>

fileVars == <<today, prices_dir, holdings_file, watchlist_file>>

runVars == <<eod_run, race, hold_snaps, daily_run, watch_run, week_run>>

vars == <<eod_log, lastKind, lastShift, stop, holdings, px, wl_snap, wl_log,
          rpc, merged, top_winners, risk_flags, global_dd, orders,
          today, prices_dir, holdings_file, watchlist_file,
          eod_run, race, hold_snaps, daily_run, watch_run, week_run>>

----------------------------------------------------------------------------
(* Bounds of the model *)

MaxDay == 1          \* calendar dates are 0 .. MaxDay

MaxPos == 3          \* the holdings table has at most MaxPos non-cash positions

MaxWatch == 3        \* the watchlist snapshot has at most MaxWatch symbols

MaxRuleLen == 3      \* stop-loss rule texts have at most MaxRuleLen characters

----------------------------------------------------------------------------
(* Numbers: floats as exact rationals, NaN as d = 0 *)

NaN == [n |-> 0, d |-> 0]

Num(i) == [n |-> i, d |-> 1]

isnan(x) == x.d = 0

notna(x) == x.d # 0

Abs(i) == IF i < 0 THEN -i ELSE i

RECURSIVE GCD(_, _)
GCD(a, b) == IF b = 0 THEN a ELSE GCD(b, a % b)

\* the rational num/den in lowest terms with a positive denominator (den # 0)
Rat(num, den) ==
    LET s == IF den < 0 THEN -1 ELSE 1
        g == GCD(Abs(num), Abs(den))
    IN  [n |-> (s * num) \div g, d |-> (s * den) \div g]

\* x - y on floats: NaN propagates
Sub(x, y) ==
    IF isnan(x) \/ isnan(y) THEN NaN
    ELSE Rat(x.n * y.d - y.n * x.d, x.d * y.d)

\* x + y on floats: NaN propagates
Add(x, y) ==
    IF isnan(x) \/ isnan(y) THEN NaN
    ELSE Rat(x.n * y.d + y.n * x.d, x.d * y.d)

\* x <= y on floats: any comparison with NaN is False
Leq(x, y) == notna(x) /\ notna(y) /\ x.n * y.d <= y.n * x.d

----------------------------------------------------------------------------
(* eod_repo.py: upsert_eod *)

PORTFOLIO_NAME == "AI Portfolj 1"

Dates == 0 .. MaxDay

TotalValues == {NaN, Num(0), Num(90000), Num(100000)}

BenchmarkValues == {NaN, Num(50), Num(60)}

CashValues == {Num(5000)}

NotesValues == {0}     \* notes carry the number of triggered stop-losses

\* the row dictionaries handed to upsert_eod (the keys main() builds)
Rows ==
    [date : Dates, portfolio_name : {PORTFOLIO_NAME}, cash_SEK : CashValues,
     total_value_SEK : TotalValues, benchmark_SEK : BenchmarkValues,
     notes : NotesValues]

\* def pct(a,b), nested in upsert_eod
pct(a, b) ==
    IF notna(b) /\ b.n # 0 /\ notna(a)
    THEN Rat((a.n * b.d - b.n * a.d) * 100, a.d * b.n)
    ELSE NaN

\* the frame upsert_eod starts from: the file's rows, or an empty frame
ReadEod(file) == IF file.exists THEN file.rows ELSE <<>>

\* mutant of mask: a comparison that never matches
mask_never(eod, row) == {}

\* mask = (eod["date"].dt.date == row["date"])
mask(eod, row) == {i \in 1 .. Len(eod) : eod[i].date = row.date}

Min(S) == CHOOSE x \in S : \A y \in S : x <= y

\* mutant of OverwriteRow: writes the row at the last position, not at idx
OverwriteRow_last(eod, idx, row) ==
    [eod EXCEPT ![Len(eod)] =
        [@ EXCEPT !.date = row.date, !.portfolio_name = row.portfolio_name,
                  !.cash_SEK = row.cash_SEK,
                  !.total_value_SEK = row.total_value_SEK,
                  !.benchmark_SEK = row.benchmark_SEK, !.notes = row.notes]]

\* eod.at[idx, k] = v for every key of row; the other columns keep their values
OverwriteRow(eod, idx, row) ==
    [eod EXCEPT ![idx] =
        [@ EXCEPT !.date = row.date, !.portfolio_name = row.portfolio_name,
                  !.cash_SEK = row.cash_SEK,
                  !.total_value_SEK = row.total_value_SEK,
                  !.benchmark_SEK = row.benchmark_SEK, !.notes = row.notes]]

\* mutant of ConcatRow: the new row takes the place of the last row
ConcatRow_replace(eod, row) ==
    Append(SubSeq(eod, 1, Len(eod) - 1),
        [date |-> row.date, day_index |-> NaN, day_tag |-> <<NaN, row.date>>,
         portfolio_name |-> row.portfolio_name, cash_SEK |-> row.cash_SEK,
         total_value_SEK |-> row.total_value_SEK,
         benchmark_SEK |-> row.benchmark_SEK,
         return_total_pct |-> NaN, return_vs_bm_pct |-> NaN,
         notes |-> row.notes])

\* pd.concat([eod, pd.DataFrame([row])]): columns absent from row are NaN
ConcatRow(eod, row) ==
    Append(eod,
        [date |-> row.date, day_index |-> NaN, day_tag |-> <<NaN, row.date>>,
         portfolio_name |-> row.portfolio_name, cash_SEK |-> row.cash_SEK,
         total_value_SEK |-> row.total_value_SEK,
         benchmark_SEK |-> row.benchmark_SEK,
         return_total_pct |-> NaN, return_vs_bm_pct |-> NaN,
         notes |-> row.notes])

\* if mask.any(): overwrite the first matching row, else append
ApplyRow(eod, row) ==
    LET m == mask(eod, row)
    IN  IF m # {} THEN OverwriteRow(eod, Min(m), row) ELSE ConcatRow(eod, row)

\* insert r into the date-sorted s, after the rows with a date <= r.date
InsertSorted(s, r) ==
    LET k == Cardinality({i \in 1 .. Len(s) : s[i].date <= r.date})
    IN  SubSeq(s, 1, k) \o <<r>> \o SubSeq(s, k + 1, Len(s))

\* mutant of sort_values: the frame is left in write order
sort_values_none(s) == s

\* eod.sort_values("date").reset_index(drop=True)
RECURSIVE sort_values(_)
sort_values(s) ==
    IF s = <<>> THEN <<>>
    ELSE InsertSorted(sort_values(SubSeq(s, 1, Len(s) - 1)), s[Len(s)])

\* mutant of base_port: the base is the latest row
base_port_last(eod) == eod[Len(eod)].total_value_SEK

\* base_port: total value of the first row of the sorted frame
base_port(eod) == eod[1].total_value_SEK

\* base_bm: the first benchmark that is not NaN, in date order, else NaN
base_bm(eod) ==
    LET have == {i \in 1 .. Len(eod) : notna(eod[i].benchmark_SEK)}
    IN  IF have # {} THEN eod[Min(have)].benchmark_SEK ELSE NaN

\* eod["day_index"]: (d - base_date).days
day_index(base_date, r) == Num(r.date - base_date)

\* eod["return_vs_bm_pct"]: assigned only when base_bm is not NaN
return_vs_bm_pct(bp, bb, r) ==
    IF notna(bb)
    THEN IF notna(r.benchmark_SEK)
         THEN Sub(pct(r.total_value_SEK, bp), pct(r.benchmark_SEK, bb))
         ELSE NaN
    ELSE r.return_vs_bm_pct

\* the recompute of Dag N and the returns over the sorted frame
Recompute(eod) ==
    IF eod = <<>> THEN eod
    ELSE LET base_date == eod[1].date
             bp == base_port(eod)
             bb == base_bm(eod)
         IN  [i \in 1 .. Len(eod) |->
                LET r == eod[i]
                    di == day_index(base_date, r)
                IN  [r EXCEPT
                        !.day_index = di,
                        !.day_tag = <<di, r.date>>,
                        !.return_total_pct = pct(r.total_value_SEK, bp),
                        !.return_vs_bm_pct = return_vs_bm_pct(bp, bb, r)]]

\* upsert_eod(eod_path, row): the file it leaves behind
upsert_eod(file, row) ==
    [exists |-> TRUE,
     rows |-> Recompute(sort_values(ApplyRow(ReadEod(file), row)))]

----------------------------------------------------------------------------
(* State machine of the ledger: successive EOD runs *)

DatesOf(rows) == {rows[i].date : i \in 1 .. Len(rows)}

InitLedger ==
    /\ eod_log = [exists |-> FALSE, rows |-> <<>>]
    /\ lastKind = "none"
    /\ lastShift = 0

\* one EOD run reaching upsert_eod with row
Upsert(row) ==
    LET eod == ReadEod(eod_log)
    IN  /\ eod_log' = upsert_eod(eod_log, row)
        /\ lastKind' = IF mask(eod, row) # {} THEN "update" ELSE "append"
        /\ lastShift' = IF eod # <<>> /\ row.date < Min(DatesOf(eod))
                        THEN Min(DatesOf(eod)) - row.date ELSE 0

NextLedger ==
    /\ \E row \in Rows : Upsert(row)
    /\ UNCHANGED <<stop, reportVars, fileVars, runVars>>

----------------------------------------------------------------------------
(* Properties of the ledger *)

LedgerRows == eod_log.rows

\* the row dictionary that wrote the financial fields of a ledger row
RowOf(r) ==
    [date |-> r.date, portfolio_name |-> r.portfolio_name,
     cash_SEK |-> r.cash_SEK, total_value_SEK |-> r.total_value_SEK,
     benchmark_SEK |-> r.benchmark_SEK, notes |-> r.notes]

\* the ledger row of date d (when d is present)
RowAt(rows, d) == rows[CHOOSE i \in 1 .. Len(rows) : rows[i].date = d]

C3_DayIndex ==
    /\ \A i \in 1 .. Len(LedgerRows) - 1 :
          LedgerRows[i].date <= LedgerRows[i + 1].date
    /\ \A i \in 1 .. Len(LedgerRows) :
          /\ LedgerRows[i].day_index =
                Num(LedgerRows[i].date - Min(DatesOf(LedgerRows)))
          /\ LedgerRows[i].day_index.n >= 0
    /\ LedgerRows # <<>> => LedgerRows[1].day_index = Num(0)
    /\ \A row \in Rows :
          (LedgerRows # <<>> /\ row.date < Min(DatesOf(LedgerRows))) =>
             LET new == upsert_eod(eod_log, row).rows
                 k == Min(DatesOf(LedgerRows)) - row.date
             IN  \A i \in 1 .. Len(LedgerRows) :
                    RowAt(new, LedgerRows[i].date).day_index =
                       Num(LedgerRows[i].day_index.n + k)

\* a backfill before the earliest date has just shifted the indices
C3_Witness ==
    /\ lastShift >= 1
    /\ Len(LedgerRows) >= 2
    /\ LedgerRows[1].day_index = Num(0)
    /\ LedgerRows[2].day_index = Num(lastShift)

\* the total value of the minimum-date row
BaseTotal(rows) == RowAt(rows, Min(DatesOf(rows))).total_value_SEK

\* C4: return_total_pct of every row is (total / base - 1) * 100 with base
\* the total value of the minimum-date row, and is undefined in every row
\* when that base is zero or missing.
C4_ReturnTotal ==
    \A i \in 1 .. Len(LedgerRows) :
        LET base == BaseTotal(LedgerRows)
            v == LedgerRows[i].total_value_SEK
        IN  /\ (isnan(base) \/ base = Num(0)) =>
                  isnan(LedgerRows[i].return_total_pct)
            /\ (notna(base) /\ base # Num(0) /\ notna(v)) =>
                  LedgerRows[i].return_total_pct =
                     Rat((v.n - base.n) * 100, base.n)

\* after a backfill the later row stands at -10% of the new earliest row
C4_Witness ==
    /\ lastShift > 0
    /\ Len(LedgerRows) >= 2
    /\ LedgerRows[1].total_value_SEK = Num(100000)
    /\ LedgerRows[2].total_value_SEK = Num(90000)
    /\ LedgerRows[2].return_total_pct = Num(-10)

RECURSIVE FromScratch(_)
FromScratch(rows) ==
    IF rows = <<>> THEN [exists |-> FALSE, rows |-> <<>>]
    ELSE upsert_eod(FromScratch(SubSeq(rows, 1, Len(rows) - 1)),
                    RowOf(rows[Len(rows)]))

----------------------------------------------------------------------------
(* Text of a stop-loss cell: str(), strip(), endswith(), float() *)

\* a cell of the Stop-loss column: a text, or a float when pandas read a
\* number or an empty cell (NaN)
StrCell(s) == [t |-> "str", s |-> s, v |-> NaN]

FloatCell(v) == [t |-> "float", s |-> <<>>, v |-> v]

DigitChars == <<"0", "1", "2", "3", "4", "5", "6", "7", "8", "9">>

IsDigit(c) == \E i \in 1 .. 10 : DigitChars[i] = c

DigitVal(c) == (CHOOSE i \in 1 .. 10 : DigitChars[i] = c) - 1

\* decimal digits of a natural number
RECURSIVE Digits(_)
Digits(k) ==
    IF k < 10 THEN <<DigitChars[k + 1]>>
    ELSE Digits(k \div 10) \o <<DigitChars[(k % 10) + 1]>>

\* value of a sequence of digits
RECURSIVE DigitsVal(_)
DigitsVal(ds) ==
    IF ds = <<>> THEN 0
    ELSE 10 * DigitsVal(SubSeq(ds, 1, Len(ds) - 1)) + DigitVal(ds[Len(ds)])

RECURSIVE Pow10(_)
Pow10(k) == IF k = 0 THEN 1 ELSE 10 * Pow10(k - 1)

\* str(x) of a cell: the text itself, "nan" for NaN, repr of a whole float
str(cell) ==
    IF cell.t = "str" THEN cell.s
    ELSE IF isnan(cell.v) THEN <<"n", "a", "n">>
    ELSE (IF cell.v.n < 0 THEN <<"-">> ELSE <<>>)
            \o Digits(Abs(cell.v.n)) \o <<".", "0">>

\* (x or ""): the falsy values are the empty text and the float 0.0
OrEmpty(cell) ==
    IF (cell.t = "str" /\ cell.s = <<>>) \/ (cell.t = "float" /\ cell.v = Num(0))
    THEN StrCell(<<>>)
    ELSE cell

RECURSIVE lstrip(_)
lstrip(s) == IF s # <<>> /\ s[1] = " " THEN lstrip(Tail(s)) ELSE s

RECURSIVE rstrip(_)
rstrip(s) ==
    IF s # <<>> /\ s[Len(s)] = " " THEN rstrip(SubSeq(s, 1, Len(s) - 1)) ELSE s

\* s.strip()
strip(s) == rstrip(lstrip(s))

\* s.endswith("%")
endswith_pct(s) == s # <<>> /\ s[Len(s)] = "%"

\* s[:-1]
DropLast(s) == SubSeq(s, 1, Len(s) - 1)

\* float(s): [ok, v]; ok = FALSE stands for the ValueError.  Accepted:
\* surrounding blanks, a sign, digits with at most one point and at least
\* one digit, and "nan"
float(s) ==
    LET t == strip(s)
        signed == t # <<>> /\ t[1] \in {"-", "+"}
        body == IF signed THEN Tail(t) ELSE t
        sgn == IF t # <<>> /\ t[1] = "-" THEN -1 ELSE 1
        dots == {i \in 1 .. Len(body) : body[i] = "."}
        dot == IF dots = {} THEN Len(body) + 1 ELSE CHOOSE i \in dots : TRUE
        ip == SubSeq(body, 1, dot - 1)
        fp == SubSeq(body, dot + 1, Len(body))
    IN  IF body = <<"n", "a", "n">> THEN [ok |-> TRUE, v |-> NaN]
        ELSE IF /\ Cardinality(dots) <= 1
                /\ \A i \in 1 .. Len(body) : i \in dots \/ IsDigit(body[i])
                /\ Len(ip) + Len(fp) >= 1
        THEN [ok |-> TRUE,
              v |-> Rat(sgn * (DigitsVal(ip) * Pow10(Len(fp)) + DigitsVal(fp)),
                        Pow10(Len(fp)))]
        ELSE [ok |-> FALSE, v |-> NaN]

\* a * b and a / b on floats; NaN propagates, b = 0 is handled by the callers
Mul(x, y) ==
    IF isnan(x) \/ isnan(y) THEN NaN ELSE Rat(x.n * y.n, x.d * y.d)

Div(x, y) ==
    IF isnan(x) \/ isnan(y) THEN NaN ELSE Rat(x.n * y.d, x.d * y.n)

----------------------------------------------------------------------------
(* Stop-loss evaluation: eod_repo.stop_hit, build_daily_report._stop_hit
   and _sl_distance_pct *)

\* mutant of stop_hit: a price equal to the level does not trigger
stop_hit_strict(row) ==
    LET sl == strip(str(row.Stop_loss))
        price == row.close_sek
        buy == row.Inkopskurs
        p == Div(float(DropLast(sl)).v, Num(100))
    IN  IF isnan(price) \/ isnan(buy) THEN FALSE
        ELSE IF endswith_pct(sl)
             THEN IF ~float(DropLast(sl)).ok THEN FALSE
                  ELSE /\ Leq(price, Mul(Sub(Num(1), p), buy))
                       /\ price # Mul(Sub(Num(1), p), buy)
             ELSE IF ~float(sl).ok THEN FALSE
                  ELSE Leq(price, float(sl).v) /\ price # float(sl).v

\* eod_repo.py: stop_hit(row)
stop_hit(row) ==
    LET sl == strip(str(row.Stop_loss))
        price == row.close_sek
        buy == row.Inkopskurs
        p == Div(float(DropLast(sl)).v, Num(100))
    IN  IF isnan(price) \/ isnan(buy) THEN FALSE
        ELSE IF endswith_pct(sl)
             THEN IF ~float(DropLast(sl)).ok THEN FALSE
                  ELSE Leq(price, Mul(Sub(Num(1), p), buy))
             ELSE IF ~float(sl).ok THEN FALSE
                  ELSE Leq(price, float(sl).v)

\* mutant of _stop_hit: a rule that does not parse counts as triggered
_stop_hit_failopen(price_sek, buy, sl_str) ==
    LET sl == strip(str(OrEmpty(sl_str)))
        p == Div(float(DropLast(sl)).v, Num(100))
    IN  IF isnan(price_sek) \/ isnan(buy) THEN FALSE
        ELSE IF endswith_pct(sl)
             THEN IF ~float(DropLast(sl)).ok THEN TRUE
                  ELSE Leq(price_sek, Mul(Sub(Num(1), p), buy))
             ELSE IF ~float(sl).ok THEN TRUE
                  ELSE Leq(price_sek, float(sl).v)

\* build_daily_report.py: _stop_hit(price_sek, buy, sl_str)
_stop_hit(price_sek, buy, sl_str) ==
    LET sl == strip(str(OrEmpty(sl_str)))
        p == Div(float(DropLast(sl)).v, Num(100))
    IN  IF isnan(price_sek) \/ isnan(buy) THEN FALSE
        ELSE IF endswith_pct(sl)
             THEN IF ~float(DropLast(sl)).ok THEN FALSE
                  ELSE Leq(price_sek, Mul(Sub(Num(1), p), buy))
             ELSE IF ~float(sl).ok THEN FALSE
                  ELSE Leq(price_sek, float(sl).v)

\* price_sek / lvl - 1.0) * 100.0; a zero lvl raises ZeroDivisionError,
\* which the caller catches like the ValueError of float()
DistanceTo(price_sek, lvl) ==
    IF isnan(lvl) \/ lvl = Num(0) THEN NaN
    ELSE Mul(Sub(Div(price_sek, lvl), Num(1)), Num(100))

\* build_daily_report.py: _sl_distance_pct(price_sek, buy, sl_str)
_sl_distance_pct(price_sek, buy, sl_str) ==
    LET sl == strip(str(OrEmpty(sl_str)))
        p == Div(float(DropLast(sl)).v, Num(100))
    IN  IF isnan(price_sek) \/ isnan(buy) THEN NaN
        ELSE IF endswith_pct(sl)
             THEN IF ~float(DropLast(sl)).ok THEN NaN
                  ELSE DistanceTo(price_sek, Mul(Sub(Num(1), p), buy))
             ELSE IF ~float(sl).ok THEN NaN
                  ELSE DistanceTo(price_sek, float(sl).v)

\* the characters the rule texts are made of
RuleChars == {"0", "1", "9", ".", "%", " ", "x"}

RuleTexts == UNION {[1 .. k -> RuleChars] : k \in 0 .. MaxRuleLen}

StopCells ==
    {StrCell(s) : s \in RuleTexts} \cup {FloatCell(v) : v \in {NaN, Num(0), Num(90)}}

StopPrices == {NaN, Num(85), Num(90), Num(91)}

StopCosts == {NaN, Num(100)}

NoStop == [pc |-> "off"]

InitStop ==
    \E cell \in StopCells, price \in StopPrices, buy \in StopCosts :
        stop = [pc |-> "input", cell |-> cell, price |-> price, buy |-> buy]

\* one position evaluated by the EOD logger and by the daily report
EvalStop ==
    /\ stop.pc = "input"
    /\ stop' = [pc |-> "done", cell |-> stop.cell, price |-> stop.price,
                buy |-> stop.buy,
                hit_eod |-> stop_hit([Stop_loss |-> stop.cell,
                                      close_sek |-> stop.price,
                                      Inkopskurs |-> stop.buy]),
                hit_daily |-> _stop_hit(stop.price, stop.buy, stop.cell),
                dist |-> _sl_distance_pct(stop.price, stop.buy, stop.cell)]

NextStop == EvalStop /\ UNCHANGED <<ledgerVars, reportVars, fileVars, runVars>>

\* C10: a rule that parses neither as "X%" nor as a number (empty, missing,
\* arbitrary text), or a missing price or cost basis, gives stop_triggered
\* False and an undefined distance, in the EOD logger and the daily report.
Unparseable(cell) ==
    LET sl == strip(str(cell))
        x == IF endswith_pct(sl) THEN float(DropLast(sl)) ELSE float(sl)
    IN  ~x.ok \/ isnan(x.v)

C10_StopFailSafe ==
    (/\ stop.pc = "done"
     /\ Unparseable(stop.cell) \/ isnan(stop.price) \/ isnan(stop.buy)) =>
        /\ stop.hit_eod = FALSE
        /\ stop.hit_daily = FALSE
        /\ isnan(stop.dist)

\* an arbitrary text evaluated with price and cost basis defined
C10_Witness ==
    /\ stop.pc = "done"
    /\ stop.cell = StrCell(<<"x", "1", "%">>)
    /\ stop.price = Num(85)
    /\ stop.buy = Num(100)
    /\ stop.hit_eod = FALSE
    /\ isnan(stop.dist)

\* the percentage X of a rule text "X%", NaN when the text is no such rule
PercentOf(cell) ==
    LET sl == strip(str(cell))
    IN  IF endswith_pct(sl) /\ float(DropLast(sl)).ok THEN float(DropLast(sl)).v
        ELSE NaN

\* the level L of an absolute rule, NaN when the text is no such rule
LevelOf(cell) ==
    LET sl == strip(str(cell))
    IN  IF ~endswith_pct(sl) /\ float(sl).ok THEN float(sl).v ELSE NaN

\* x <= y on exact values
AtMost(x, y) == x.n * y.d <= y.n * x.d

----------------------------------------------------------------------------
(* build_daily_report.py: main() up to the order suggestions *)

\* x < y on floats
Lt(x, y) == notna(x) /\ notna(y) /\ x.n * y.d < y.n * x.d

\* Floor of a float that is not NaN
Floor(x) == x.n \div x.d

\* round(x, 2), half to even
round2(x) ==
    IF isnan(x) THEN NaN
    ELSE LET y == Mul(x, Num(100))
             f == Floor(y)
             twice == Sub(Mul(y, Num(2)), Num(2 * f))
         IN  IF Lt(twice, Num(1)) THEN Rat(f, 100)
             ELSE IF Lt(Num(1), twice) THEN Rat(f + 1, 100)
             ELSE IF f % 2 = 0 THEN Rat(f, 100) ELSE Rat(f + 1, 100)

\* str.upper() on the tickers of the model
upper(t) ==
    CASE t = "aaa" -> "AAA"
      [] t = "cash" -> "CASH"
      [] OTHER -> t

\* the first two positions are not on the watchlist
HeldTickers == <<"CCC", "DDD", "AAA", "BBB", "KKK", "LLL">>

WatchTickers == <<"aaa", "BBB", "EEE", "FFF", "GGG", "HHH">>

PriceOptions == {NaN, Num(90), Num(95)}      \* NaN: the ticker is not in px

CashOptions == {NaN, Num(100), Num(300)}     \* NaN: no CASH row

WatchPrices == {Num(0), Num(110), Num(120)}

\* the holdings table: n positions of 10 units bought at 100 with a 10% stop,
\* then the CASH row; the CASH row of 300 carries a stop of 0%, which the
\* price of 1.0 pinned to it meets
HoldingsOf(n, cash) ==
    [i \in 1 .. n |->
        [Ticker |-> HeldTickers[i], Antal |-> Num(10), Inkopskurs |-> Num(100),
         Stop_loss |-> StrCell(<<"1", "0", "%">>)]]
    \o (IF isnan(cash) THEN <<>>
        ELSE <<[Ticker |-> "CASH", Antal |-> cash, Inkopskurs |-> Num(1),
                Stop_loss |-> IF cash = Num(300) THEN StrCell(<<"0", "%">>)
                              ELSE FloatCell(NaN)]>>)

\* the price table: one row per position that has a price
PxOf(n, opt) ==
    LET all == [i \in 1 .. n |-> [ticker |-> HeldTickers[i], close_sek |-> opt[i]]]
        Priced(r) == notna(r.close_sek)
    IN  SelectSeq(all, Priced)

\* the calendar day of the price table and of the previous watchlist entries
PricesAsof == 1

\* the snapshot watchlist_repo.py writes; in_portfolio: the ticker is held
WlSnapOf(m, cur, h) ==
    [j \in 1 .. m |->
        [ticker |-> WatchTickers[j], close_sek |-> cur[j],
         in_portfolio |->
            \E i \in 1 .. Len(h) :
               upper(h[i].Ticker) # "CASH" /\ upper(h[i].Ticker) = upper(WatchTickers[j])]]

WlLogOf(m) ==
    [j \in 1 .. m |->
        [date |-> PricesAsof - 1, ticker |-> WatchTickers[j], close_sek |-> Num(100)]]

\* a ledger of two rows with the given total values
LedgerOf(first, last) ==
    upsert_eod(
        upsert_eod([exists |-> FALSE, rows |-> <<>>],
            [date |-> 0, portfolio_name |-> PORTFOLIO_NAME, cash_SEK |-> Num(5000),
             total_value_SEK |-> first, benchmark_SEK |-> NaN, notes |-> 0]),
        [date |-> 1, portfolio_name |-> PORTFOLIO_NAME, cash_SEK |-> Num(5000),
         total_value_SEK |-> last, benchmark_SEK |-> NaN, notes |-> 0])

ReportLedgers ==
    {[exists |-> FALSE, rows |-> <<>>],
     LedgerOf(Num(0), Num(90000)),
     LedgerOf(Num(100000), Num(90000)),
     LedgerOf(Num(100000), Num(80000))}

\* close_sek of ticker t after the left merge with px, CASH pinned to 1.0
close_sek_of(t, prices) ==
    IF upper(t) = "CASH" THEN Num(1)
    ELSE LET hit == {i \in 1 .. Len(prices) : prices[i].ticker = t}
         IN  IF hit = {} THEN NaN ELSE prices[Min(hit)].close_sek

\* (Antal * close_sek).fillna(0.0)
Marknadsvarde(antal, close) ==
    IF isnan(Mul(antal, close)) THEN Num(0) ELSE Mul(antal, close)

\* merged: holdings with close_sek, Marknadsvarde, StopLossTriggad, SL_dist_pct
MergeAndValue(h, prices) ==
    [i \in 1 .. Len(h) |->
        LET close == close_sek_of(h[i].Ticker, prices)
        IN  [Ticker |-> h[i].Ticker, Antal |-> h[i].Antal,
             Inkopskurs |-> h[i].Inkopskurs, Stop_loss |-> h[i].Stop_loss,
             close_sek |-> close,
             Marknadsvarde |-> Marknadsvarde(h[i].Antal, close),
             StopLossTriggad |-> _stop_hit(close, h[i].Inkopskurs, h[i].Stop_loss),
             SL_dist_pct |-> _sl_distance_pct(close, h[i].Inkopskurs, h[i].Stop_loss)]]

\* prev_map[t]: the latest close_sek of t in the log before the price date
prev_price(t, log) ==
    LET sub == {i \in 1 .. Len(log) : log[i].ticker = t /\ log[i].date < PricesAsof}
        latest == CHOOSE i \in sub : \A k \in sub : log[k].date <= log[i].date
    IN  IF sub = {} THEN NaN ELSE log[latest].close_sek

\* movers: (t, pct, curp, in_portfolio) for every row of the snapshot
MoversOf(snap, log) ==
    [j \in 1 .. Len(snap) |->
        LET curp == snap[j].close_sek
            prevp == prev_price(snap[j].ticker, log)
        IN  [t |-> snap[j].ticker,
             pct |-> IF notna(curp) /\ notna(prevp) /\ prevp # Num(0)
                     THEN Mul(Sub(Div(curp, prevp), Num(1)), Num(100))
                     ELSE NaN,
             cur_price |-> curp, inp |-> snap[j].in_portfolio]]

\* sorted(have_pct, key=pct, reverse=True): stable, the highest move first
InsertByPct(s, r) ==
    LET k == Cardinality({i \in 1 .. Len(s) : Leq(r.pct, s[i].pct)})
    IN  SubSeq(s, 1, k) \o <<r>> \o SubSeq(s, k + 1, Len(s))

RECURSIVE SortByPctDesc(_)
SortByPctDesc(s) ==
    IF s = <<>> THEN <<>>
    ELSE InsertByPct(SortByPctDesc(SubSeq(s, 1, Len(s) - 1)), s[Len(s)])

\* s[:k]
Take(s, k) == SubSeq(s, 1, IF Len(s) < k THEN Len(s) ELSE k)

\* top_winners: the three highest moves among the movers that have one
TopWinners(snap, log) ==
    LET HasPct(r) == notna(r.pct)
    IN  IF snap = <<>> THEN <<>>
        ELSE Take(SortByPctDesc(SelectSeq(MoversOf(snap, log), HasPct)), 3)

\* p >= 8.0 or p <= -8.0
BigMove(r) == Leq(Num(8), r.pct) \/ Leq(r.pct, Num(-8))

\* the non-cash rows of merged with a stop-loss distance of at most 3%
NearStop(r) ==
    upper(r.Ticker) # "CASH" /\ notna(r.SL_dist_pct) /\ Leq(r.SL_dist_pct, Num(3))

\* risk_flags: inside `if not wl_snap.empty`, the moves of 8% and more, then
\* the positions near their stop
RiskFlags(snap, log, m) ==
    LET HasPct(r) == notna(r.pct)
        moves == SelectSeq(SelectSeq(MoversOf(snap, log), HasPct), BigMove)
        near == SelectSeq(m, NearStop)
    IN  IF snap = <<>> THEN <<>>
        ELSE [i \in 1 .. Len(moves) |->
                 [t |-> moves[i].t, kind |-> "move", v |-> moves[i].pct]]
             \o [i \in 1 .. Len(near) |->
                 [t |-> near[i].Ticker, kind |-> "near", v |-> near[i].SL_dist_pct]]

\* global_dd: (last / base - 1) * 100 over the date-sorted ledger
GlobalDrawdown(eod) ==
    IF eod = <<>> THEN NaN
    ELSE LET base == eod[1].total_value_SEK
             last == eod[Len(eod)].total_value_SEK
         IN  IF notna(base) /\ base # Num(0)
             THEN Mul(Sub(Div(last, base), Num(1)), Num(100))
             ELSE NaN

RECURSIVE SumValue(_)
SumValue(rows) ==
    IF rows = <<>> THEN Num(0)
    ELSE Add(Head(rows).Marknadsvarde, SumValue(Tail(rows)))

IsCashRow(r) == upper(r.Ticker) = "CASH"

NotCashRow(r) == upper(r.Ticker) # "CASH"

\* cash_val and total_val of the BUY branch
cash_val(m) == SumValue(SelectSeq(m, IsCashRow))

total_val(m) == SumValue(m)

\* mutant of SellOrders: the CASH row is not left out
SellOrders_cash(m) ==
    LET Sells(r) == r.StopLossTriggad /\ notna(r.close_sek)
        hit == SelectSeq(m, Sells)
    IN  [i \in 1 .. Len(hit) |->
            [action |-> "SELL", ticker |-> hit[i].Ticker, size_pct |-> NaN,
             entry |-> hit[i].close_sek, sl |-> hit[i].Stop_loss]]

\* 1) SELL: every non-cash row with a triggered stop-loss and a price
SellOrders(m) ==
    LET Sells(r) == r.StopLossTriggad /\ upper(r.Ticker) # "CASH" /\ notna(r.close_sek)
        hit == SelectSeq(m, Sells)
    IN  [i \in 1 .. Len(hit) |->
            [action |-> "SELL", ticker |-> hit[i].Ticker, size_pct |-> NaN,
             entry |-> hit[i].close_sek, sl |-> hit[i].Stop_loss]]

\* mutant of can_buy: an undefined drawdown blocks buying
can_buy_defined(dd) == notna(dd) /\ Leq(Num(-15), dd)

\* can_buy: the drawdown is undefined or not below -15%
can_buy(dd) == isnan(dd) \/ Leq(Num(-15), dd)

\* size_pct = min(10.0, max(2.0, 5.0))
SizePct == 5

size_pct ==
    LET lo == IF SizePct < 2 THEN 2 ELSE SizePct
    IN  Num(IF lo > 10 THEN 10 ELSE lo)

\* mutant of CapitalGuard: the allocation alone is compared with the cash
CapitalGuard_single(m) ==
    Lt(cash_val(m), Div(Mul(total_val(m), size_pct), Num(100)))

\* alloc * 2.0 > cash_val
CapitalGuard(m) ==
    Lt(cash_val(m), Mul(Div(Mul(total_val(m), size_pct), Num(100)), Num(2)))

\* mutant of SkipsWinner: the held tickers are compared as written
SkipsWinner_exact(w, m) ==
    \/ \E i \in 1 .. Len(m) : NotCashRow(m[i]) /\ m[i].Ticker = w.t
    \/ isnan(w.cur_price) \/ Leq(w.cur_price, Num(0))
    \/ Leq(total_val(m), Num(0))
    \/ CapitalGuard(m)

\* whether the BUY loop skips the winner w
SkipsWinner(w, m) ==
    \/ \E i \in 1 .. Len(m) : NotCashRow(m[i]) /\ upper(m[i].Ticker) = upper(w.t)
    \/ isnan(w.cur_price) \/ Leq(w.cur_price, Num(0))
    \/ Leq(total_val(m), Num(0))
    \/ CapitalGuard(m)

\* the table after an allocation has been taken from the CASH rows
Spend(m) ==
    LET alloc == Div(Mul(total_val(m), size_pct), Num(100))
    IN  [i \in 1 .. Len(m) |->
            IF IsCashRow(m[i])
            THEN [m[i] EXCEPT !.Marknadsvarde = Sub(m[i].Marknadsvarde, alloc)]
            ELSE m[i]]

\* mutant of BuyOrders: each BUY lowers the cash the next candidate is
\* checked against
RECURSIVE BuyOrders_spend(_, _, _, _)
BuyOrders_spend(w, k, slots, m) ==
    IF k > Len(w) \/ slots <= 0 THEN <<>>
    ELSE IF SkipsWinner(w[k], m) THEN BuyOrders_spend(w, k + 1, slots, m)
    ELSE <<[action |-> "BUY", ticker |-> w[k].t, size_pct |-> size_pct,
            entry |-> w[k].cur_price,
            sl |-> FloatCell(round2(Mul(w[k].cur_price, Rat(92, 100))))]>>
         \o BuyOrders_spend(w, k + 1, slots - 1, Spend(m))

\* 2) BUY: the loop over top_winners from position k with slots left
RECURSIVE BuyOrders(_, _, _, _)
BuyOrders(w, k, slots, m) ==
    IF k > Len(w) \/ slots <= 0 THEN <<>>
    ELSE IF SkipsWinner(w[k], m) THEN BuyOrders(w, k + 1, slots, m)
    ELSE <<[action |-> "BUY", ticker |-> w[k].t, size_pct |-> size_pct,
            entry |-> w[k].cur_price,
            sl |-> FloatCell(round2(Mul(w[k].cur_price, Rat(92, 100))))]>>
         \o BuyOrders(w, k + 1, slots - 1, m)

HoldOrder ==
    [action |-> "HOLD", ticker |-> "-", size_pct |-> NaN, entry |-> NaN,
     sl |-> FloatCell(NaN)]

\* the list before the final cut: SELLs, then BUYs or the HOLD
Suggestions(m, w, dd) ==
    LET sells == SellOrders(m)
        slots == IF 3 - Len(sells) < 0 THEN 0 ELSE 3 - Len(sells)
    IN  IF can_buy(dd) /\ w # <<>> THEN sells \o BuyOrders(w, 1, slots, m)
        ELSE IF ~can_buy(dd) THEN Append(sells, HoldOrder)
        ELSE sells

\* orders = orders[:3]
MaxOrders == 3

\* mutant of Truncated: the list is returned as generated
Truncated_none(o) == o

Truncated(o) == Take(o, MaxOrders)

\* no file of the other scripts is looked at, none of their runs has started
NoFiles ==
    /\ today = 0
    /\ prices_dir = [d \in Dates |-> [exists |-> FALSE, rows |-> <<>>]]
    /\ holdings_file = [exists |-> FALSE, columns |-> {}, rows |-> <<>>]
    /\ watchlist_file = [exists |-> FALSE, rows |-> <<>>]

NoRuns ==
    /\ eod_run = [pc |-> "off"]
    /\ race = [pc |-> "off"]
    /\ hold_snaps = [d \in Dates |-> [exists |-> FALSE, rows |-> <<>>]]
    /\ daily_run = [pc |-> "off"]
    /\ watch_run = [pc |-> "off"]
    /\ week_run = [pc |-> "off"]

NoReport ==
    /\ holdings = <<>> /\ px = <<>> /\ wl_snap = <<>> /\ wl_log = <<>>
    /\ rpc = "off" /\ merged = <<>> /\ top_winners = <<>> /\ risk_flags = <<>>
    /\ global_dd = NaN /\ orders = <<>>

InitReport ==
    /\ \E n \in 0 .. MaxPos, cash \in CashOptions :
         \E opt \in [1 .. n -> PriceOptions] :
            /\ holdings = HoldingsOf(n, cash)
            /\ px = PxOf(n, opt)
    /\ \E k \in 0 .. MaxWatch :
         \E cur \in [1 .. k -> WatchPrices] :
            /\ wl_snap = WlSnapOf(k, cur, holdings)
            /\ wl_log = WlLogOf(k)
    /\ eod_log \in ReportLedgers
    /\ lastKind = "none" /\ lastShift = 0
    /\ stop = NoStop
    /\ rpc = "start" /\ merged = <<>> /\ top_winners = <<>> /\ risk_flags = <<>>
    /\ global_dd = NaN /\ orders = <<>>
    /\ NoFiles /\ NoRuns

\* lines 172-213: read the ledger and the holdings, join the prices, value.
\* Without a ledger file the sort of the empty frame raises and the run ends.
LoadAndValue ==
    /\ rpc = "start"
    /\ IF eod_log.exists
       THEN /\ merged' = MergeAndValue(holdings, px)
            /\ rpc' = "valued"
       ELSE /\ rpc' = "failed"
            /\ UNCHANGED merged
    /\ UNCHANGED <<holdings, px, wl_snap, wl_log, top_winners, risk_flags, global_dd,
                   orders>>

\* lines 254-299: the movers of the watchlist snapshot, the winners and the
\* risk flags
Movers ==
    /\ rpc = "valued"
    /\ top_winners' = TopWinners(wl_snap, wl_log)
    /\ risk_flags' = RiskFlags(wl_snap, wl_log, merged)
    /\ rpc' = "movers"
    /\ UNCHANGED <<holdings, px, wl_snap, wl_log, merged, global_dd, orders>>

\* lines 301-349: the drawdown, the SELLs, the BUYs or the HOLD
Suggest ==
    /\ rpc = "movers"
    /\ global_dd' = GlobalDrawdown(sort_values(eod_log.rows))
    /\ orders' = Suggestions(merged, top_winners,
                             GlobalDrawdown(sort_values(eod_log.rows)))
    /\ rpc' = "orders"
    /\ UNCHANGED <<holdings, px, wl_snap, wl_log, merged, top_winners, risk_flags>>

\* line 351
Truncate ==
    /\ rpc = "orders"
    /\ orders' = Truncated(orders)
    /\ rpc' = "done"
    /\ UNCHANGED <<holdings, px, wl_snap, wl_log, merged, top_winners, risk_flags,
                   global_dd>>

NextReport ==
    /\ LoadAndValue \/ Movers \/ Suggest \/ Truncate
    /\ UNCHANGED <<ledgerVars, stop, fileVars, runVars>>

\* C8: the order suggestion engine returns at most 3 suggestions.
C8_AtMostThree == rpc = "done" => Len(orders) <= 3

\* three SELLs and the HOLD were generated and three suggestions are returned
C8_Witness ==
    /\ rpc = "done"
    /\ Len(orders) = 3
    /\ Len(Suggestions(merged, top_winners, global_dd)) > 3

\* C9: no BUY is emitted when 2 * (size_pct/100 * total value) exceeds the
\* cash value, the market value of the CASH rows, total value being the sum
\* of all market values.
CashValueOf(m) ==
    LET c == {i \in 1 .. Len(m) : upper(m[i].Ticker) = "CASH"}
    IN  IF c = {} THEN Num(0) ELSE m[CHOOSE i \in c : TRUE].Marknadsvarde

RECURSIVE TotalValueOf(_, _)
TotalValueOf(m, i) ==
    IF i > Len(m) THEN Num(0) ELSE Add(m[i].Marknadsvarde, TotalValueOf(m, i + 1))

\* 2 * (size_pct / 100 * total value)
TwiceAllocation(o, m) ==
    Mul(Num(2), Mul(Div(o.size_pct, Num(100)), TotalValueOf(m, 1)))

C9_CapitalGuard ==
    rpc \in {"orders", "done"} =>
       \A i \in 1 .. Len(orders) :
          orders[i].action = "BUY" =>
             Leq(TwiceAllocation(orders[i], merged), CashValueOf(merged))

\* a BUY emitted with cash exactly twice the allocation, next to a SELL
C9_Witness ==
    /\ rpc = "done"
    /\ \E i \in 1 .. Len(orders) : orders[i].action = "BUY"
    /\ \E i \in 1 .. Len(orders) : orders[i].action = "SELL"
    /\ \A i \in 1 .. Len(orders) :
          orders[i].action = "BUY" =>
             TwiceAllocation(orders[i], merged) = CashValueOf(merged)

\* the actions of the suggestions in list order
ActionsOf(o) == [i \in 1 .. Len(o) |-> o[i].action]

HasAction(o, a) == \E i \in 1 .. Len(o) : o[i].action = a

\* the drawdown from the first row of the ledger file to its last row
LedgerDrawdown ==
    IF ~eod_log.exists \/ eod_log.rows = <<>> THEN NaN
    ELSE LET base == eod_log.rows[1].total_value_SEK
             last == eod_log.rows[Len(eod_log.rows)].total_value_SEK
         IN  IF isnan(base) \/ base = Num(0) \/ isnan(last) THEN NaN
             ELSE Rat((last.n * base.d - base.n * last.d) * 100, last.d * base.n)

\* the drawdown is defined and worse than -15%
GuardBlocks == notna(LedgerDrawdown) /\ Lt(LedgerDrawdown, Num(-15))

\* C18: a HOLD is emitted only when the drawdown guard blocks buying (the
\* global drawdown is defined and worse than -15%) and no candidate came
\* from the BUY branch; a list never holds both a BUY and a HOLD, and no
\* HOLD appears when the drawdown is undefined or not worse than -15%.
C18_HoldOnlyWhenBlocked ==
    rpc \in {"orders", "done"} =>
       /\ HasAction(orders, "HOLD") => GuardBlocks /\ ~HasAction(orders, "BUY")
       /\ ~(HasAction(orders, "BUY") /\ HasAction(orders, "HOLD"))
       /\ ~GuardBlocks => ~HasAction(orders, "HOLD")

\* the HOLD is returned after a SELL although the winners hold a ticker
\* that is priced and not owned
C18_Witness ==
    /\ rpc = "done"
    /\ HasAction(orders, "HOLD") /\ HasAction(orders, "SELL")
    /\ \E k \in 1 .. Len(top_winners) :
          /\ Lt(Num(0), top_winners[k].cur_price)
          /\ \A i \in 1 .. Len(holdings) :
                upper(holdings[i].Ticker) # upper(top_winners[k].t)

\* the rows of the watchlist snapshot with a move against the previous entry
RankedWinner(t) ==
    \E j \in 1 .. Len(wl_snap) :
       /\ wl_snap[j].ticker = t
       /\ notna(wl_snap[j].close_sek)
       /\ \E k \in 1 .. Len(wl_log) :
             wl_log[k].ticker = t /\ wl_log[k].date < PricesAsof

\* the current price of a watchlist ticker
WatchPriceOf(t) ==
    wl_snap[CHOOSE j \in 1 .. Len(wl_snap) : wl_snap[j].ticker = t].close_sek

HeldNonCash(t) ==
    \E i \in 1 .. Len(holdings) :
       upper(holdings[i].Ticker) # "CASH" /\ upper(holdings[i].Ticker) = upper(t)

\* C19: every BUY meets all BUY preconditions: the drawdown from the
\* ledger's first row is undefined or not worse than -15%, the ticker is a
\* ranked daily winner and not a held non-cash ticker (case-insensitive),
\* its current price is defined and positive, the total portfolio value is
\* positive, and its size is 5%, inside [2%, 10%].
C19_BuyPreconditions ==
    rpc \in {"orders", "done"} =>
       \A i \in 1 .. Len(orders) :
          orders[i].action = "BUY" =>
             /\ ~GuardBlocks
             /\ RankedWinner(orders[i].ticker)
             /\ ~HeldNonCash(orders[i].ticker)
             /\ Lt(Num(0), WatchPriceOf(orders[i].ticker))
             /\ orders[i].entry = WatchPriceOf(orders[i].ticker)
             /\ Lt(Num(0), TotalValueOf(merged, 1))
             /\ orders[i].size_pct = Num(5)
             /\ Leq(Num(2), orders[i].size_pct) /\ Leq(orders[i].size_pct, Num(10))

\* a BUY is returned while one winner is held under another spelling and
\* another winner has the price 0
C19_Witness ==
    /\ rpc = "done"
    /\ HasAction(orders, "BUY")
    /\ \E k \in 1 .. Len(top_winners) :
          HeldNonCash(top_winners[k].t) /\ ~\E i \in 1 .. Len(holdings) :
                                               holdings[i].Ticker = top_winners[k].t
    /\ \E k \in 1 .. Len(top_winners) : top_winners[k].cur_price = Num(0)

\* the positions, in holdings order, that are not CASH, have a price in px
\* and a stop-loss level the price has reached
TriggeredPositions ==
    LET Hit(i) ==
           LET hit == {k \in 1 .. Len(px) : px[k].ticker = holdings[i].Ticker}
               price == IF hit = {} THEN NaN ELSE px[Min(hit)].close_sek
           IN  /\ upper(holdings[i].Ticker) # "CASH"
               /\ notna(price)
               /\ _stop_hit(price, holdings[i].Inkopskurs, holdings[i].Stop_loss)
        idx == {i \in 1 .. Len(holdings) : Hit(i)}
        nth(j) == CHOOSE i \in idx : Cardinality({k \in idx : k < i}) = j - 1
    IN  [j \in 1 .. Cardinality(idx) |-> holdings[nth(j)].Ticker]

\* C20: SELL priority. In the returned list every SELL precedes every BUY
\* and HOLD; with k non-cash positions whose stop-loss is triggered and whose
\* price is defined, the list holds the first min(3, k) of them in holdings
\* order as SELLs, BUY or HOLD entries take only the remaining 3 - k slots
\* (none when k >= 3), and CASH is never the ticker of a SELL.
C20_SellPriority ==
    rpc = "done" =>
       LET k == Len(TriggeredPositions)
           sells == IF k < 3 THEN k ELSE 3
       IN  /\ \A i \in 1 .. Len(orders) :
                (orders[i].action = "SELL") = (i <= sells)
           /\ \A i \in 1 .. sells :
                i <= Len(orders) /\ orders[i].ticker = TriggeredPositions[i]
           /\ Len(orders) - sells <= 3 - sells
           /\ \A i \in 1 .. Len(orders) :
                orders[i].action = "SELL" => upper(orders[i].ticker) # "CASH"

\* two positions are sold, the one between them is not, a BUY takes the
\* last slot, and the stop of the CASH row is met
C20_Witness ==
    /\ rpc = "done"
    /\ ActionsOf(orders) = <<"SELL", "SELL", "BUY">>
    /\ orders[1].ticker = "CCC" /\ orders[2].ticker = "AAA"
    /\ \E i \in 1 .. Len(merged) :
          upper(merged[i].Ticker) = "CASH" /\ merged[i].StopLossTriggad

\* the held non-cash positions whose stop-loss distance is defined and at
\* most 3%
NearTheirStop ==
    {merged[i].Ticker : i \in {k \in 1 .. Len(merged) :
        /\ upper(merged[k].Ticker) # "CASH"
        /\ notna(merged[k].SL_dist_pct)
        /\ merged[k].SL_dist_pct.n * 1 <= 3 * merged[k].SL_dist_pct.d}}

FlaggedAs(kind) ==
    {risk_flags[i].t : i \in {k \in 1 .. Len(risk_flags) : risk_flags[k].kind = kind}}

\* C23: near-stop flags are independent of the watchlist. In every daily
\* run every held non-cash position whose stop-loss distance is defined and
\* <= 3% gets a "near stop" flag, whether or not the watchlist snapshot is
\* present or holds that symbol.
C23_NearStopFlags ==
    rpc \in {"movers", "orders", "done"} => NearTheirStop \subseteq FlaggedAs("near")

\* C23 for the runs that find a watchlist snapshot with rows: the positions
\* near their stop are flagged, those on the watchlist and those not on it,
\* and nothing else is
C23_NearStopWithWatchlist ==
    (rpc \in {"movers", "orders", "done"} /\ wl_snap # <<>>) =>
        FlaggedAs("near") = NearTheirStop

\* the tickers of the suggestions with the given action, in list order
TickersOf(o, a) ==
    LET Is(x) == x.action = a
        sel == SelectSeq(o, Is)
    IN  [i \in 1 .. Len(sel) |-> sel[i].ticker]

\* the winners, in rank order, that are not held and have a positive price
Candidates ==
    LET Buyable(w) == ~HeldNonCash(w.t) /\ Lt(Num(0), w.cur_price)
        sel == SelectSeq(top_winners, Buyable)
    IN  [i \in 1 .. Len(sel) |-> sel[i].t]

\* cash is at least 10% of the total portfolio value
CashCoversTenth ==
    Leq(Div(TotalValueOf(merged, 1), Num(10)), CashValueOf(merged))

\* C25: within one run the capital guard gives the same verdict for every
\* BUY candidate: cash and total value are read once and not reduced by
\* earlier BUYs, the size is the constant 5%, so a BUY is emitted only if cash
\* is at least 10% of the total value, and when it is, every candidate gets
\* its BUY as far as the slots left by the SELLs reach, up to 3 BUYs of 5%
\* each together.
C25_SameVerdict ==
    rpc \in {"orders", "done"} =>
        LET buys == TickersOf(orders, "BUY")
            sells == Len(TriggeredPositions)
            slots == IF sells >= 3 THEN 0 ELSE 3 - sells
            open == ~GuardBlocks /\ Lt(Num(0), TotalValueOf(merged, 1))
        IN  /\ buys # <<>> => CashCoversTenth
            /\ \A i \in 1 .. Len(orders) :
                  orders[i].action = "BUY" => orders[i].size_pct = Num(5)
            /\ IF open /\ CashCoversTenth
               THEN buys = Take(Candidates, slots)
               ELSE buys = <<>>

\* three BUYs of 5% are returned together while cash is below 15% of the
\* total value
C25_Witness ==
    /\ rpc = "done"
    /\ ActionsOf(orders) = <<"BUY", "BUY", "BUY">>
    /\ ~Leq(Mul(TotalValueOf(merged, 1), Rat(15, 100)), CashValueOf(merged))

----------------------------------------------------------------------------
(* eod_repo.py: main(), the whole EOD run over the files of the repository *)

MaxHeld == 2         \* the holdings file of an EOD run has at most MaxHeld positions

\* load_latest_prices(max_back_days=4)
EodBackDays == 4

\* _load_latest_prices(max_back_days=7) of the daily report
DailyBackDays == 7

\* date.today(): the price files lie inside both look-backs, outside the one
\* of the EOD logger, or outside both
TodayOptions == {1, 4, 8}

Columns == {"Ticker", "Antal", "Inkopskurs", "Stop_loss"}

FileAt(dir, d) == d \in DOMAIN dir /\ dir[d].exists

\* the days today, today - 1, ... that have a price file
FoundBack(dir, day, back) == {k \in 0 .. back - 1 : FileAt(dir, day - k)}

\* eod_repo.load_latest_prices: the newest file of the look-back, or the error
load_latest_prices(dir, day) ==
    LET found == FoundBack(dir, day, EodBackDays)
    IN  IF found = {}
        THEN [ok |-> FALSE, df |-> <<>>, asof |-> day]
        ELSE [ok |-> TRUE, df |-> dir[day - Min(found)].rows, asof |-> day - Min(found)]

\* build_daily_report._load_latest_prices: the same, an empty table if none
_load_latest_prices(dir, day) ==
    LET found == FoundBack(dir, day, DailyBackDays)
    IN  IF found = {}
        THEN [df |-> <<>>, asof |-> day]
        ELSE [df |-> dir[day - Min(found)].rows, asof |-> day - Min(found)]

\* mutant of load_holdings_repo: the mandatory columns are not checked
load_holdings_repo_nocheck(file) ==
    [ok |-> file.exists, err |-> "FileNotFoundError", df |-> file.rows]

\* eod_repo.load_holdings_repo: the errors, then CASH with cost 1.0 and a
\* missing quantity filled with 0.0
load_holdings_repo(file) ==
    IF ~file.exists THEN [ok |-> FALSE, err |-> "FileNotFoundError", df |-> <<>>]
    ELSE IF Columns \ file.columns # {}
    THEN [ok |-> FALSE, err |-> "ValueError", df |-> <<>>]
    ELSE [ok |-> TRUE, err |-> "",
          df |-> [i \in 1 .. Len(file.rows) |->
                    LET r == file.rows[i]
                    IN  IF upper(r.Ticker) = "CASH"
                        THEN [r EXCEPT !.Inkopskurs = Num(1),
                                       !.Antal = IF isnan(@) THEN Num(0) ELSE @]
                        ELSE r]]

\* holdings.merge(px, on="Ticker", how="left") for one holdings row: one row
\* per matching price row, one row with an undefined price if there is none
MergeRow(r, prices) ==
    LET Same(q) == q.ticker = r.Ticker
        hit == SelectSeq(prices, Same)
    IN  IF hit = <<>> THEN <<[r EXCEPT !.close_sek = NaN]>>
        ELSE [k \in 1 .. Len(hit) |-> [r EXCEPT !.close_sek = hit[k].close_sek]]

RECURSIVE MergeLeft(_, _)
MergeLeft(h, prices) ==
    IF h = <<>> THEN <<>>
    ELSE MergeRow(Head(h), prices) \o MergeLeft(Tail(h), prices)

\* mutant of PinCash: the price the lookup returned is kept
PinCash_lookup(r) == r

\* merged.loc[is_cash, "close_sek"] = 1.0
PinCash(r) == IF upper(r.Ticker) = "CASH" THEN [r EXCEPT !.close_sek = Num(1)] ELSE r

\* lines 193-206: merge, CASH at 1.0, Marknadsvarde, StopLossTriggad
EodMerge(h, prices) ==
    LET blank == [i \in 1 .. Len(h) |->
                    [Ticker |-> h[i].Ticker, Antal |-> h[i].Antal,
                     Inkopskurs |-> h[i].Inkopskurs, Stop_loss |-> h[i].Stop_loss,
                     close_sek |-> NaN]]
        joined == MergeLeft(blank, prices)
    IN  [i \in 1 .. Len(joined) |->
            LET r == PinCash(joined[i])
            IN  [Ticker |-> r.Ticker, Antal |-> r.Antal, Inkopskurs |-> r.Inkopskurs,
                 Stop_loss |-> r.Stop_loss, close_sek |-> r.close_sek,
                 Marknadsvarde |-> Marknadsvarde(r.Antal, r.close_sek),
                 StopLossTriggad |-> stop_hit(r)]]

\* lines 212-225: ACWI of the price table, else the benchmark yfinance gives
Benchmark(prices, yf) ==
    LET IsAcwi(q) == q.ticker = "ACWI"
        hit == SelectSeq(prices, IsAcwi)
        bm == IF hit = <<>> THEN NaN ELSE hit[1].close_sek
    IN  IF isnan(bm) THEN yf ELSE bm

\* what yfinance may return for ACWI in SEK: nothing or a quote
YfBenchmarks == {NaN, Num(50)}

\* lines 208-210, 227-234: the ledger row of the run
EodRow(m, asof, bm) ==
    LET Triggered(r) == r.StopLossTriggad
    IN  [date |-> asof, portfolio_name |-> PORTFOLIO_NAME,
         cash_SEK |-> SumValue(SelectSeq(m, IsCashRow)),
         total_value_SEK |-> SumValue(m),
         benchmark_SEK |-> bm,
         notes |-> Len(SelectSeq(m, Triggered))]

\* the holdings file: n positions and the CASH row, with or without its columns
\* a ticker may have no row in the price table, a row without a price, a price
EodPriceOptions ==
    {[quoted |-> FALSE, v |-> NaN], [quoted |-> TRUE, v |-> NaN],
     [quoted |-> TRUE, v |-> Num(90)]}

EodCashRows ==
    {<<>>,
     <<[Ticker |-> "CASH", Antal |-> Num(100), Inkopskurs |-> Num(1),
        Stop_loss |-> FloatCell(NaN)]>>,
     <<[Ticker |-> "cash", Antal |-> Num(2000), Inkopskurs |-> Num(1),
        Stop_loss |-> FloatCell(NaN)]>>}

PositionsOf(n) ==
    [i \in 1 .. n |->
        [Ticker |-> HeldTickers[i], Antal |-> Num(10), Inkopskurs |-> Num(100),
         Stop_loss |-> StrCell(<<"1", "0", "%">>)]]

HoldingsFiles ==
    {[exists |-> FALSE, columns |-> {}, rows |-> <<>>]}
    \cup {[exists |-> TRUE, columns |-> cols, rows |-> PositionsOf(n) \o c] :
             n \in 0 .. MaxHeld, c \in EodCashRows,
             cols \in {Columns, Columns \ {"Stop_loss"}}}

\* a prices_raw table: the positions that are quoted, then perhaps a CASH row
PriceTable(opt, cashrow) ==
    LET Quoted(i) == opt[i].quoted
        RECURSIVE From(_)
        From(i) ==
            IF i > MaxHeld THEN <<>>
            ELSE (IF Quoted(i)
                  THEN <<[ticker |-> HeldTickers[i], close_sek |-> opt[i].v]>>
                  ELSE <<>>) \o From(i + 1)
    IN  From(1)
        \o (IF cashrow THEN <<[ticker |-> "CASH", close_sek |-> Num(7)]>> ELSE <<>>)

PriceTables ==
    {PriceTable(opt, c) : opt \in [1 .. MaxHeld -> EodPriceOptions], c \in BOOLEAN}

\* data/daily: no price file at all, or the given table as the file of one day
PriceDirs(table) ==
    {[d \in Dates |-> [exists |-> FALSE, rows |-> <<>>]]}
    \cup {[d \in Dates |->
              IF d = day THEN [exists |-> TRUE, rows |-> table]
              ELSE [exists |-> FALSE, rows |-> <<>>]] : day \in Dates}

\* a ledger written by two earlier runs
EarlierLedgers == {[exists |-> FALSE, rows |-> <<>>], LedgerOf(Num(100000), Num(90000))}

\* lines 176-183 of build_daily_report.main: the holdings as the report reads
\* them; a file without rows counts as no file, a missing Stop-loss column
\* reads as None
DailyHoldings(file) ==
    IF ~file.exists THEN <<>>
    ELSE [i \in 1 .. Len(file.rows) |->
            IF "Stop_loss" \in file.columns THEN file.rows[i]
            ELSE [file.rows[i] EXCEPT !.Stop_loss = StrCell(<<>>)]]

InitEod ==
    /\ today \in TodayOptions
    /\ \E table \in PriceTables : prices_dir \in PriceDirs(table)
    /\ holdings_file \in HoldingsFiles
    /\ watchlist_file = [exists |-> FALSE, rows |-> <<>>]
    /\ eod_log \in EarlierLedgers
    /\ lastKind = "none" /\ lastShift = 0
    /\ stop = NoStop
    /\ NoReport
    /\ NoRuns

\* eod_repo.main: prices, holdings, valuation, benchmark, upsert_eod
EodMain ==
    \E yf \in YfBenchmarks :
        LET lp == load_latest_prices(prices_dir, today)
            lh == load_holdings_repo(holdings_file)
            m == EodMerge(lh.df, lp.df)
            row == EodRow(m, lp.asof, Benchmark(lp.df, yf))
        IN  IF ~lp.ok
            THEN /\ eod_run' = [pc |-> "failed", err |-> "FileNotFoundError",
                                before |-> eod_log]
                 /\ UNCHANGED eod_log
            ELSE IF ~lh.ok
            THEN /\ eod_run' = [pc |-> "failed", err |-> lh.err, before |-> eod_log]
                 /\ UNCHANGED eod_log
            ELSE /\ eod_run' = [pc |-> "done", prices |-> lp.df, merged |-> m,
                                row |-> row, before |-> eod_log]
                 /\ eod_log' = upsert_eod(eod_log, row)

\* lines 176-191 of build_daily_report.main: the holdings and the price table
DailyLoad ==
    /\ rpc = "off"
    /\ holdings' = DailyHoldings(holdings_file)
    /\ px' = _load_latest_prices(prices_dir, today).df
    /\ rpc' = "start"
    /\ UNCHANGED <<wl_snap, wl_log, merged, top_winners, risk_flags, global_dd, orders>>

NextEod ==
    \/ /\ EodMain
       /\ UNCHANGED <<lastKind, lastShift, stop, reportVars, fileVars,
                      race, hold_snaps, daily_run, watch_run, week_run>>
    \/ /\ DailyLoad \/ LoadAndValue
       /\ UNCHANGED <<ledgerVars, stop, fileVars, runVars>>

----------------------------------------------------------------------------
(* Properties of the valuation and of the EOD run *)

\* the prices the table has for ticker t
QuotesOf(t, prices) == {prices[k].close_sek : k \in {j \in 1 .. Len(prices) : prices[j].ticker = t}}

\* m values the positions h against prices: CASH at 1.0, an unquoted ticker
\* undefined and worth 0, every other one quantity * price
ValuedRight(m, h, prices) ==
    /\ Len(m) = Len(h)
    /\ \A i \in 1 .. Len(m) :
          /\ m[i].Ticker = h[i].Ticker
          /\ m[i].Antal = h[i].Antal
          /\ IF upper(h[i].Ticker) = "CASH"
             THEN m[i].close_sek = Num(1) /\ m[i].Marknadsvarde = h[i].Antal
             ELSE IF QuotesOf(h[i].Ticker, prices) = {}
             THEN isnan(m[i].close_sek) /\ m[i].Marknadsvarde = Num(0)
             ELSE /\ m[i].close_sek \in QuotesOf(h[i].Ticker, prices)
                  /\ m[i].Marknadsvarde =
                        IF isnan(m[i].close_sek) THEN Num(0)
                        ELSE Mul(h[i].Antal, m[i].close_sek)

\* C11: valuation. CASH is priced 1.0 whatever the lookup returns, a ticker
\* absent from the price table gets an undefined price and market value 0,
\* every other position is worth quantity * price, and the total value is the
\* sum of the market values; in the EOD logger and in the daily report.
C11_Valuation ==
    /\ eod_run.pc = "done" =>
          /\ ValuedRight(eod_run.merged, holdings_file.rows, eod_run.prices)
          /\ eod_run.row.total_value_SEK = TotalValueOf(eod_run.merged, 1)
    /\ rpc = "valued" => ValuedRight(merged, holdings, px)

\* an EOD run that valued a quoted position, an unquoted one and CASH, with
\* a CASH row in the price table
C11_Witness ==
    /\ eod_run.pc = "done"
    /\ QuotesOf("CASH", eod_run.prices) = {Num(7)}
    /\ \E i, j, k \in 1 .. Len(eod_run.merged) :
          /\ eod_run.merged[i].Ticker = "CASH"
          /\ eod_run.merged[j].Marknadsvarde = Num(900)
          /\ QuotesOf(eod_run.merged[k].Ticker, eod_run.prices) = {}
    /\ eod_run.row.total_value_SEK = Num(1000)

\* the holdings file is there with its mandatory columns
Usable(file) == file.exists /\ Columns \subseteq file.columns

\* C15: when the holdings table is absent or lacks a mandatory column the EOD
\* run aborts with an error and the ledger is left exactly as it was.
C15_AbortKeepsLedger ==
    (eod_run.pc # "off" /\ ~Usable(holdings_file)) =>
        eod_run.pc = "failed" /\ eod_log = eod_run.before

\* a run over a holdings file without its Stop-loss column, with prices at
\* hand and two rows in the ledger
C15_Witness ==
    /\ eod_run.pc = "failed"
    /\ eod_run.err = "ValueError"
    /\ Len(eod_log.rows) = 2

\* C16: with no price snapshot for the run date nor for any day of the
\* look-back the EOD run does not fail, uses an empty price table and records
\* a ledger row whose total is the cash value.
C16_StaleRecoverable ==
    (/\ eod_run.pc # "off"
     /\ FoundBack(prices_dir, today, EodBackDays) = {}
     /\ Usable(holdings_file)) =>
        /\ eod_run.pc = "done"
        /\ \E i \in 1 .. Len(eod_log.rows) :
              /\ eod_log.rows[i].date = today
              /\ eod_log.rows[i].total_value_SEK = eod_log.rows[i].cash_SEK

----------------------------------------------------------------------------
(* build_daily_report.py: the holdings snapshot and the changes against the
   previous one, over successive runs *)

\* the tickers of the holdings, in the order sorted() gives them
SortedTickers == <<"AAA", "BBB", "CASH">>

TickerRank(t) == CHOOSE i \in 1 .. Len(SortedTickers) : SortedTickers[i] = t

\* sorted(S) for a set of tickers
RECURSIVE sorted(_)
sorted(S) ==
    IF S = {} THEN <<>>
    ELSE LET t == CHOOSE x \in S : \A y \in S : TickerRank(x) <= TickerRank(y)
         IN  <<t>> \o sorted(S \ {t})

\* the columns written to holdings_<date>.csv
SnapshotOf(m) ==
    [i \in 1 .. Len(m) |->
        [Ticker |-> m[i].Ticker, Antal |-> m[i].Antal, Inkopskurs |-> m[i].Inkopskurs,
         Stop_loss |-> m[i].Stop_loss, close_sek |-> m[i].close_sek,
         Marknadsvarde |-> m[i].Marknadsvarde]]

\* no snapshot file
NoDate == -1

Max(S) == CHOOSE x \in S : \A y \in S : y <= x

\* mutant of _prev_snapshot_path: the snapshot of asof itself is a candidate
_prev_snapshot_path_current(snaps, asof) ==
    LET prev == {d \in DOMAIN snaps : snaps[d].exists /\ d <= asof}
    IN  IF prev = {} THEN NoDate ELSE Max(prev)

\* _prev_snapshot_path: the latest snapshot strictly before asof, if any
_prev_snapshot_path(snaps, asof) ==
    LET prev == {d \in DOMAIN snaps : snaps[d].exists /\ d < asof}
    IN  IF prev = {} THEN NoDate ELSE Max(prev)

\* set(df["Ticker"].tolist())
TickerSet(rows) == {rows[i].Ticker : i \in 1 .. Len(rows)}

\* float(df.loc[df["Ticker"] == t, "Antal"].iloc[0])
FirstQty(rows, t) == rows[Min({i \in 1 .. Len(rows) : rows[i].Ticker = t})].Antal

\* abs(q1 - q2) > 1e-9, that is |n| * 10^9 > d for the difference n / d
QtyDiffers(q1, q2) ==
    LET diff == Sub(q1, q2)
    IN  notna(diff) /\ Abs(diff.n) > diff.d \div 1000000000

\* lines 222-252: the new, closed and changed tickers; nothing is compared
\* when the previous snapshot has no rows
Changes(prev, cur) ==
    LET prev_set == TickerSet(prev)
        cur_set == TickerSet(cur)
        NotCash(t) == upper(t) # "CASH"
        Changed(t) == upper(t) # "CASH" /\ QtyDiffers(FirstQty(prev, t), FirstQty(cur, t))
        new == SelectSeq(sorted(cur_set \ prev_set), NotCash)
        closed == SelectSeq(sorted(prev_set \ cur_set), NotCash)
        changed == SelectSeq(sorted(cur_set \cap prev_set), Changed)
    IN  IF prev = <<>> THEN [new |-> <<>>, closed |-> <<>>, changed |-> <<>>]
        ELSE [new |-> [i \in 1 .. Len(new) |->
                          [t |-> new[i], qty |-> FirstQty(cur, new[i])]],
              closed |-> [i \in 1 .. Len(closed) |->
                          [t |-> closed[i], qty |-> FirstQty(prev, closed[i])]],
              changed |-> [i \in 1 .. Len(changed) |->
                          [t |-> changed[i], q1 |-> FirstQty(prev, changed[i]),
                           q2 |-> FirstQty(cur, changed[i])]]]

Position(t, antal) ==
    [Ticker |-> t, Antal |-> Num(antal), Inkopskurs |-> Num(100),
     Stop_loss |-> StrCell(<<"1", "0", "%">>)]

\* the holdings file on successive days: absent, or one of four tables
SnapHoldingsFiles ==
    {[exists |-> FALSE, columns |-> {}, rows |-> <<>>]}
    \cup {[exists |-> TRUE, columns |-> Columns, rows |-> rows] :
            rows \in {<<Position("BBB", 10), Position("AAA", 10), Position("CASH", 100)>>,
                      <<Position("BBB", 10), Position("AAA", 20), Position("CASH", 200)>>,
                      <<Position("AAA", 10)>>,
                      <<Position("CASH", 100)>>}}

\* the table fetch_prices.py writes
FetchedPrices ==
    <<[ticker |-> "AAA", close_sek |-> Num(90)], [ticker |-> "BBB", close_sek |-> Num(95)]>>

\* the calendar days of the successive runs
SnapDays == 0 .. MaxDay + 1

InitSnap ==
    /\ today = 0
    /\ prices_dir = [d \in SnapDays |-> [exists |-> FALSE, rows |-> <<>>]]
    /\ holdings_file \in SnapHoldingsFiles
    /\ watchlist_file = [exists |-> FALSE, rows |-> <<>>]
    /\ hold_snaps = [d \in SnapDays |-> [exists |-> FALSE, rows |-> <<>>]]
    /\ daily_run = [pc |-> "off"]
    /\ eod_run = [pc |-> "off"]
    /\ race = [pc |-> "off"]
    /\ watch_run = [pc |-> "off"]
    /\ week_run = [pc |-> "off"]
    /\ eod_log \in EarlierLedgers
    /\ lastKind = "none" /\ lastShift = 0
    /\ stop = NoStop
    /\ NoReport

\* the calendar moves on
NextDay ==
    /\ today + 1 \in DOMAIN prices_dir
    /\ today' = today + 1
    /\ UNCHANGED <<prices_dir, holdings_file, hold_snaps, daily_run>>

\* fetch_prices.py writes prices_raw_<today>.csv
FetchPrices ==
    /\ ~prices_dir[today].exists
    /\ prices_dir' = [prices_dir EXCEPT ![today] = [exists |-> TRUE, rows |-> FetchedPrices]]
    /\ UNCHANGED <<today, holdings_file, hold_snaps, daily_run>>

\* holdings_repo.csv is edited between two runs
EditHoldings ==
    /\ \E f \in SnapHoldingsFiles : f # holdings_file /\ holdings_file' = f
    /\ UNCHANGED <<today, prices_dir, hold_snaps, daily_run>>

\* build_daily_report.main, lines 172-252: valuation, the snapshot of the
\* price date written, the previous snapshot read, the changes
DailyPass ==
    LET lp == _load_latest_prices(prices_dir, today)
        m == MergeAndValue(DailyHoldings(holdings_file), lp.df)
        written == [hold_snaps EXCEPT ![lp.asof] = [exists |-> TRUE, rows |-> SnapshotOf(m)]]
        pd == _prev_snapshot_path(written, lp.asof)
        prev == IF pd = NoDate THEN <<>> ELSE written[pd].rows
    IN  /\ IF ~eod_log.exists
           THEN /\ daily_run' = [pc |-> "failed"]
                /\ UNCHANGED hold_snaps
           ELSE /\ hold_snaps' = written
                /\ daily_run' = [pc |-> "done", asof |-> lp.asof, prev_date |-> pd,
                                 prev |-> prev, cur |-> SnapshotOf(m),
                                 changes |-> Changes(prev, m)]
        /\ UNCHANGED <<today, prices_dir, holdings_file>>

NextSnap ==
    /\ NextDay \/ FetchPrices \/ EditHoldings \/ DailyPass
    /\ UNCHANGED <<ledgerVars, stop, reportVars, watchlist_file, eod_run, race,
                   watch_run, week_run>>

----------------------------------------------------------------------------
(* Properties of the snapshots and of the changes *)

NonCash(rows) == {t \in TickerSet(rows) : upper(t) # "CASH"}

QtyIn(rows, t) == rows[CHOOSE i \in 1 .. Len(rows) : rows[i].Ticker = t].Antal

Listed(l) == {l[i].t : i \in 1 .. Len(l)}

\* strictly increasing tickers: lexicographic order, no ticker twice
InTickerOrder(l) ==
    \A i, j \in 1 .. Len(l) : i < j => TickerRank(l[i].t) < TickerRank(l[j].t)

\* the quantities are more than 1e-9 apart
MoreThanEpsilon(q1, q2) ==
    \/ notna(Sub(q1, q2)) /\ Sub(q1, q2).n > Sub(q1, q2).d \div 1000000000
    \/ notna(Sub(q2, q1)) /\ Sub(q2, q1).n > Sub(q2, q1).d \div 1000000000

\* C12: diff completeness. For the previous and the current snapshot of a
\* run, also when one of them has no rows: New is exactly the non-CASH tickers
\* in current and not in previous, Closed those in previous and not in
\* current, Changed those in both whose quantities differ by more than 1e-9;
\* each list in ticker order, no ticker in two categories, and with the
\* unchanged tickers they cover both ticker sets minus CASH.
C12_DiffComplete ==
    (daily_run.pc = "done" /\ daily_run.prev_date # NoDate) =>
        LET P == NonCash(daily_run.prev)
            C == NonCash(daily_run.cur)
            ch == daily_run.changes
            Differ(t) == MoreThanEpsilon(QtyIn(daily_run.prev, t), QtyIn(daily_run.cur, t))
            unchanged == {t \in P \cap C : ~Differ(t)}
        IN  /\ Listed(ch.new) = C \ P
            /\ Listed(ch.closed) = P \ C
            /\ Listed(ch.changed) = {t \in P \cap C : Differ(t)}
            /\ InTickerOrder(ch.new) /\ InTickerOrder(ch.closed)
            /\ InTickerOrder(ch.changed)
            /\ Listed(ch.new) \cap Listed(ch.closed) = {}
            /\ Listed(ch.new) \cap Listed(ch.changed) = {}
            /\ Listed(ch.closed) \cap Listed(ch.changed) = {}
            /\ Listed(ch.new) \cup Listed(ch.closed) \cup Listed(ch.changed)
                  \cup unchanged = P \cup C

\* C12 with both snapshots holding rows: the same statement, which the code
\* meets
C12_DiffOfNonEmpty ==
    daily_run.pc = "done" /\ daily_run.prev_date # NoDate /\ daily_run.prev # <<>>
        => C12_DiffComplete

\* C13: holdings snapshots are immutable. Once the snapshot of a date has
\* been written no later run changes its content.
C13_SnapshotImmutable ==
    [][\A d \in DOMAIN hold_snaps :
          hold_snaps[d].exists => hold_snaps'[d] = hold_snaps[d]]_vars

\* the stored snapshots strictly older than the price date of the last run
OlderSnapshots ==
    {d \in DOMAIN hold_snaps : hold_snaps[d].exists /\ d < daily_run.asof}

\* C22: previous-snapshot selection. A daily run compares the current
\* snapshot with the most recent stored snapshot strictly older than the
\* current snapshot's date, never with the one just written for that date nor
\* with a newer one; with no strictly older snapshot New, Closed and Changed
\* are all empty and no error is raised.
C22_PreviousSnapshot ==
    (daily_run.pc # "off" /\ eod_log.exists) =>
        /\ daily_run.pc = "done"
        /\ hold_snaps[daily_run.asof].exists
        /\ OlderSnapshots # {} =>
              /\ daily_run.prev_date \in OlderSnapshots
              /\ \A d \in OlderSnapshots : d <= daily_run.prev_date
              /\ daily_run.prev = hold_snaps[daily_run.prev_date].rows
        /\ OlderSnapshots = {} =>
              /\ daily_run.prev_date = NoDate
              /\ daily_run.changes = [new |-> <<>>, closed |-> <<>>, changed |-> <<>>]

\* two older snapshots are stored with different holdings; the run took the
\* later one and reported a change against it
C22_Witness ==
    /\ daily_run.pc = "done"
    /\ Cardinality(OlderSnapshots) = 2
    /\ \E d \in OlderSnapshots :
          d < daily_run.prev_date /\ hold_snaps[d].rows # daily_run.prev
    /\ daily_run.changes.changed # <<>>

----------------------------------------------------------------------------
(* watchlist_repo.py: main(), the daily snapshot and the master log *)

MaxWatchRuns == 3    \* watchlist runs in one behaviour

\* _load_latest_prices(max_back_days=4) of watchlist_repo.py
WatchBackDays == 4

\* a value of the date column: the text pdate.isoformat() writes, the text a
\* Timestamp of an object column is written as, or a parsed Timestamp
IsoText(d) == [k |-> "str", fmt |-> "iso", day |-> d]

TimestampText(d) == [k |-> "str", fmt |-> "ts", day |-> d]

Timestamp(d) == [k |-> "Timestamp", fmt |-> "", day |-> d]

\* watchlist_repo._load_latest_prices: the newest file of the look-back
watch_load_latest_prices(dir, day) ==
    LET found == FoundBack(dir, day, WatchBackDays)
    IN  IF found = {}
        THEN [ok |-> FALSE, df |-> <<>>, pdate |-> day]
        ELSE [ok |-> TRUE, df |-> dir[day - Min(found)].rows, pdate |-> day - Min(found)]

\* _read_holdings: the upper-case tickers held, CASH left out
_read_holdings(file) ==
    IF ~file.exists \/ "Ticker" \notin file.columns THEN {}
    ELSE {upper(file.rows[i].Ticker) : i \in 1 .. Len(file.rows)} \ {"CASH"}

\* wl.merge(prices, on="ticker", how="left") for one symbol
WatchRow(t, prices) ==
    LET Same(q) == q.ticker = t
        hit == SelectSeq(prices, Same)
    IN  IF hit = <<>> THEN <<[ticker |-> t, close_sek |-> NaN]>>
        ELSE [k \in 1 .. Len(hit) |-> [ticker |-> t, close_sek |-> hit[k].close_sek]]

RECURSIVE WatchMerge(_, _)
WatchMerge(wl, prices) ==
    IF wl = <<>> THEN <<>>
    ELSE WatchRow(Head(wl), prices) \o WatchMerge(Tail(wl), prices)

\* lines 73-80: the snapshot rows with in_portfolio and the date as text; the
\* other price columns travel with close_sek
WatchSnap(wl, prices, owned, pdate) ==
    LET joined == WatchMerge(wl, prices)
    IN  [i \in 1 .. Len(joined) |->
            [date |-> IsoText(pdate), ticker |-> joined[i].ticker,
             close_sek |-> joined[i].close_sek,
             in_portfolio |-> upper(joined[i].ticker) \in owned]]

\* every date of the file is written in the same form
UniformDates(rows) ==
    \A i, j \in 1 .. Len(rows) : rows[i].date.fmt = rows[j].date.fmt

\* _safe_read_master(parse_dates=["date"]): the dates become Timestamps; with
\* two forms of date text in the column the parser may leave the texts
_safe_read_master(rows, parsed) ==
    [i \in 1 .. Len(rows) |->
        IF UniformDates(rows) \/ parsed
        THEN [rows[i] EXCEPT !.date = Timestamp(rows[i].date.day)]
        ELSE rows[i]]

\* the rows of log whose (date, ticker) is not a (date, ticker) of snap
DropKeysOf(log, snap) ==
    LET Keys == {<<snap[i].date, snap[i].ticker>> : i \in 1 .. Len(snap)}
        Kept(r) == <<r.date, r.ticker>> \notin Keys
    IN  SelectSeq(log, Kept)

\* to_csv: a Timestamp of a column that also holds texts is written with its
\* time of day
to_csv_dates(rows) ==
    [i \in 1 .. Len(rows) |->
        IF rows[i].date.k = "Timestamp"
        THEN [rows[i] EXCEPT !.date = TimestampText(rows[i].date.day)]
        ELSE rows[i]]

\* lines 88-98: the master log after the run
MasterAfter(file_rows, snap, parsed) ==
    LET log == _safe_read_master(file_rows, parsed)
    IN  IF log # <<>> THEN to_csv_dates(DropKeysOf(log, snap) \o snap)
        ELSE snap

Watchlists == {<<"AAA">>, <<"AAA", "EEE">>, <<"EEE">>}

WatchHoldingsFiles ==
    {[exists |-> FALSE, columns |-> {}, rows |-> <<>>],
     [exists |-> TRUE, columns |-> Columns, rows |-> <<Position("AAA", 10)>>]}

InitWatch ==
    /\ today = 0
    /\ prices_dir = [d \in Dates |-> [exists |-> FALSE, rows |-> <<>>]]
    /\ holdings_file \in WatchHoldingsFiles
    /\ \E wl \in Watchlists : watchlist_file = [exists |-> TRUE, rows |-> wl]
    /\ wl_log = <<>> /\ wl_snap = <<>>
    /\ watch_run = [pc |-> "off", n |-> 0]
    /\ week_run = [pc |-> "off"]
    /\ eod_run = [pc |-> "off"] /\ race = [pc |-> "off"]
    /\ daily_run = [pc |-> "off"]
    /\ hold_snaps = [d \in Dates |-> [exists |-> FALSE, rows |-> <<>>]]
    /\ holdings = <<>> /\ px = <<>>
    /\ rpc = "off" /\ merged = <<>> /\ top_winners = <<>> /\ risk_flags = <<>>
    /\ global_dd = NaN /\ orders = <<>>
    /\ InitLedger
    /\ stop = NoStop

\* holdings/watchlist.csv is edited between two runs
EditWatchlist ==
    /\ \E wl \in Watchlists :
          /\ wl # watchlist_file.rows
          /\ watchlist_file' = [exists |-> TRUE, rows |-> wl]
    /\ UNCHANGED <<today, prices_dir, holdings_file, wl_log, wl_snap, watch_run>>

\* watchlist_repo.main: prices, watchlist, snapshot file, master log
WatchMain ==
    /\ watch_run.n < MaxWatchRuns
    /\ \E parsed \in BOOLEAN :
          LET lp == watch_load_latest_prices(prices_dir, today)
              snap == WatchSnap(watchlist_file.rows, lp.df,
                                _read_holdings(holdings_file), lp.pdate)
          IN  IF ~lp.ok \/ ~watchlist_file.exists
              THEN /\ watch_run' = [pc |-> "failed", n |-> watch_run.n + 1]
                   /\ UNCHANGED <<wl_log, wl_snap>>
              ELSE /\ wl_snap' = snap
                   /\ wl_log' = MasterAfter(wl_log, snap, parsed)
                   /\ watch_run' = [pc |-> "done", n |-> watch_run.n + 1,
                                    pdate |-> lp.pdate, before |-> wl_log]
    /\ UNCHANGED <<today, prices_dir, holdings_file, watchlist_file>>

NextWatch ==
    \/ /\ NextDay \/ FetchPrices
       /\ UNCHANGED <<ledgerVars, stop, reportVars, watchlist_file, eod_run, race,
                      watch_run, week_run>>
    \/ /\ EditWatchlist \/ WatchMain
       /\ UNCHANGED <<ledgerVars, stop, holdings, px, rpc, merged, top_winners,
                      risk_flags, global_dd, orders, eod_run, race, hold_snaps,
                      daily_run, week_run>>

----------------------------------------------------------------------------
(* Properties of the master log *)

\* the entries of the log for the days other than d, whatever the form of
\* their date text
OtherDays(log, d) ==
    LET Other(r) == r.date.day # d
        sel == SelectSeq(log, Other)
    IN  [i \in 1 .. Len(sel) |->
            [day |-> sel[i].date.day, ticker |-> sel[i].ticker,
             close_sek |-> sel[i].close_sek, in_portfolio |-> sel[i].in_portfolio]]

\* C14: the master log is an idempotent upsert keyed by (date, ticker). After
\* any sequence of watchlist runs it has at most one entry per (date,
\* ticker), a re-run for a date replaces that date's entries instead of
\* duplicating them, and the entries of other dates are left unchanged.
C14_LogUpsert ==
    /\ \A i, j \in 1 .. Len(wl_log) :
          (wl_log[i].date.day = wl_log[j].date.day
             /\ wl_log[i].ticker = wl_log[j].ticker) => i = j
    /\ watch_run.pc = "done" =>
          /\ OtherDays(wl_log, watch_run.pdate) = OtherDays(watch_run.before, watch_run.pdate)
          /\ \A k \in 1 .. Len(wl_snap) :
                \E i \in 1 .. Len(wl_log) :
                   /\ wl_log[i].date.day = watch_run.pdate
                   /\ wl_log[i].ticker = wl_snap[k].ticker
                   /\ wl_log[i].close_sek = wl_snap[k].close_sek

\* the part of C14 the code keeps: a run leaves the entries of other dates
\* as they were and logs every symbol of its snapshot
C14_OtherDatesKept ==
    watch_run.pc = "done" =>
        /\ OtherDays(wl_log, watch_run.pdate) = OtherDays(watch_run.before, watch_run.pdate)
        /\ \A k \in 1 .. Len(wl_snap) :
              \E i \in 1 .. Len(wl_log) :
                 /\ wl_log[i].date.day = watch_run.pdate
                 /\ wl_log[i].ticker = wl_snap[k].ticker

----------------------------------------------------------------------------
(* eod_repo.py: two runs of upsert_eod on the same ledger file, no locking *)

\* the rows the runs of the race and the runs before it write
RaceRows ==
    [date : Dates, portfolio_name : {PORTFOLIO_NAME}, cash_SEK : CashValues,
     total_value_SEK : {Num(90000), Num(100000)}, benchmark_SEK : {NaN, Num(50)},
     notes : NotesValues]

NoLedger == [exists |-> FALSE, rows |-> <<>>]

\* the ledger before the race: no file, or the file after one or two runs
RaceLedgers ==
    {NoLedger}
    \cup {upsert_eod(NoLedger, r) : r \in RaceRows}
    \cup {upsert_eod(upsert_eod(NoLedger, r), q) : r, q \in RaceRows}

\* mutant of WriteLedger: the result is appended to the rows now in the file
WriteLedger_append(current, read, row) ==
    [exists |-> TRUE, rows |-> ReadEod(current) \o upsert_eod(read, row).rows]

\* lines 150-184: the frame read earlier, upserted, recomputed and written
\* over whatever the file holds now
WriteLedger(current, read, row) == upsert_eod(read, row)

InitRace ==
    /\ eod_log \in RaceLedgers
    /\ \E row \in RaceRows :
          race = [pc |-> <<"read", "read">>, read |-> <<NoLedger, NoLedger>>,
                  row |-> row, start |-> eod_log]
    /\ lastKind = "none" /\ lastShift = 0
    /\ stop = NoStop
    /\ NoReport /\ NoFiles
    /\ eod_run = [pc |-> "off"]
    /\ hold_snaps = [d \in Dates |-> [exists |-> FALSE, rows |-> <<>>]]
    /\ daily_run = [pc |-> "off"]
    /\ watch_run = [pc |-> "off"]
    /\ week_run = [pc |-> "off"]

\* lines 141-148 in run p: the ledger file is read, or found missing
RaceRead(p) ==
    /\ race.pc[p] = "read"
    /\ race' = [race EXCEPT !.pc[p] = "write", !.read[p] = eod_log]
    /\ UNCHANGED eod_log

\* lines 150-184 in run p: to_csv overwrites the file
RaceWrite(p) ==
    /\ race.pc[p] = "write"
    /\ eod_log' = WriteLedger(eod_log, race.read[p], race.row)
    /\ race' = [race EXCEPT !.pc[p] = "done"]

NextRace ==
    /\ \E p \in {1, 2} : RaceRead(p) \/ RaceWrite(p)
    /\ UNCHANGED <<lastKind, lastShift, stop, reportVars, fileVars,
                   eod_run, hold_snaps, daily_run, watch_run, week_run>>

\* the fields of a ledger row that a run supplies
Supplied(r) ==
    [date |-> r.date, cash_SEK |-> r.cash_SEK, total_value_SEK |-> r.total_value_SEK,
     benchmark_SEK |-> r.benchmark_SEK, notes |-> r.notes]

----------------------------------------------------------------------------
(* build_weekly_report.py: main(), the weekly slice and Sharpe/Sortino *)

MaxLedgerDays == 5   \* the ledger of a weekly run has rows on at most MaxLedgerDays days

\* calendar days, day 0 a Monday: the days a ledger row may be dated
WeekLedgerDays == <<3, 4, 7, 8, 9, 10, 2, 11>>

\* date.today() of the weekly run: a Wednesday, the Sunday after it, and the
\* Wednesday of the week after
WeekTodays == {9, 13, 16}

\* target.isoweekday(): Monday = 1 ... Sunday = 7
isoweekday(d) == (d % 7) + 1

\* _week_bounds: Monday and Friday of the ISO week of target
_week_bounds(target) ==
    LET monday == target - (isoweekday(target) - 1)
    IN  [monday |-> monday, friday |-> monday + 4]

\* _weekly_slice: the rows dated monday .. friday
_weekly_slice(df, monday, friday) ==
    LET InWeek(r) == r.date >= monday /\ r.date <= friday
    IN  SelectSeq(df, InWeek)

\* df.tail(k)
tail(df, k) == IF Len(df) <= k THEN df ELSE SubSeq(df, Len(df) - k + 1, Len(df))

\* series.dropna() of the total values of a table
dropna(values) == SelectSeq(values, notna)

\* s / s.shift(1), dropna: the day-over-day ratios whose logarithm is taken
DayOverDay(s) == [i \in 1 .. Len(s) - 1 |-> Div(s[i + 1], s[i])]

\* excess[excess < 0]: the ratios below 1 have a negative logarithm
Downside(rets) ==
    LET Falls(r) == r.n < r.d
    IN  SelectSeq(rets, Falls)

\* _sharpe_sortino: each ratio is defined when its standard deviation is,
\* that is with two returns or more (Sharpe) and two negative returns or more
\* (Sortino); the value is a function of the returns, which are kept
_sharpe_sortino(daily_values) ==
    LET sv == dropna(daily_values)
        rets == DayOverDay(sv)
        undefined == [defined |-> FALSE, rets |-> <<>>]
    IN  IF Len(sv) < 3 \/ rets = <<>>
        THEN [sharpe |-> undefined, sortino |-> undefined]
        ELSE [sharpe |-> [defined |-> Len(rets) >= 2, rets |-> rets],
              sortino |-> [defined |-> Len(Downside(rets)) >= 2, rets |-> rets]]

\* df["total_value_SEK"]
TotalsOf(df) == [i \in 1 .. Len(df) |-> df[i].total_value_SEK]

\* mutant of StatsTable: the whole ledger is never fallen back to
StatsTable_week(eod_week, eod) == eod_week

\* line 155: sref, the week's rows, or the whole ledger when they are fewer
\* than three
StatsTable(eod_week, eod) == IF Len(eod_week) >= 3 THEN eod_week ELSE eod

\* lines 133-135: the week's rows, or the last five up to Friday
WeekRows(eod, monday, friday) ==
    LET slice == _weekly_slice(eod, monday, friday)
        UpToFriday(r) == r.date <= friday
    IN  IF slice = <<>> /\ eod # <<>> THEN tail(SelectSeq(eod, UpToFriday), 5)
        ELSE slice

\* what a ledger row of a day holds: no row, or a row with this total value
DayOptions ==
    {[has |-> FALSE, v |-> NaN]} \cup {[has |-> TRUE, v |-> v] : v \in {NaN, Num(90), Num(100)}}

\* the ledger eod_repo.py leaves after the runs of the first k days
RECURSIVE LedgerAfter(_, _)
LedgerAfter(choice, k) ==
    IF k = 0 THEN NoLedger
    ELSE IF ~choice[k].has THEN LedgerAfter(choice, k - 1)
    ELSE upsert_eod(LedgerAfter(choice, k - 1),
            [date |-> WeekLedgerDays[k], portfolio_name |-> PORTFOLIO_NAME,
             cash_SEK |-> Num(5000), total_value_SEK |-> choice[k].v,
             benchmark_SEK |-> NaN, notes |-> 0])

InitWeek ==
    /\ \E choice \in [1 .. MaxLedgerDays -> DayOptions] :
          eod_log = LedgerAfter(choice, MaxLedgerDays)
    /\ \E d \in WeekTodays :
          /\ today = d
          /\ prices_dir = [k \in 0 .. d |-> [exists |-> FALSE, rows |-> <<>>]]
    /\ holdings_file = [exists |-> FALSE, columns |-> {}, rows |-> <<>>]
    /\ watchlist_file = [exists |-> FALSE, rows |-> <<>>]
    /\ lastKind = "none" /\ lastShift = 0
    /\ stop = NoStop
    /\ NoReport /\ NoRuns

\* build_weekly_report.main, lines 123-157. Without a ledger file the sort
\* of the empty frame raises and the run ends.
WeeklyMain ==
    /\ week_run.pc = "off"
    /\ IF ~eod_log.exists
       THEN week_run' = [pc |-> "failed"]
       ELSE LET eod == sort_values(eod_log.rows)
                wb == _week_bounds(today)
                eod_week == WeekRows(eod, wb.monday, wb.friday)
                sref == StatsTable(eod_week, eod)
                ss == _sharpe_sortino(TotalsOf(sref))
            IN  week_run' = [pc |-> "done", monday |-> wb.monday, friday |-> wb.friday,
                             eod_week |-> eod_week, sharpe |-> ss.sharpe,
                             sortino |-> ss.sortino]

NextWeek ==
    /\ WeeklyMain
    /\ UNCHANGED <<ledgerVars, stop, reportVars, fileVars, eod_run, race, hold_snaps,
                   daily_run, watch_run>>

----------------------------------------------------------------------------
(* Properties of the weekly ratios *)

\* the total values of the week's rows that are defined, in date order
ValidOfWeek == SelectSeq(TotalsOf(week_run.eod_week), notna)

\* the defined total values of the whole ledger
ValidOfLedger == SelectSeq(TotalsOf(eod_log.rows), notna)

\* the day-over-day ratios of a series of values
RatiosOf(sv) == [i \in 1 .. Len(sv) - 1 |-> [n |-> sv[i + 1].n * sv[i].d,
                                                d |-> sv[i + 1].d * sv[i].n]]

SameRatios(a, b) ==
    /\ Len(a) = Len(b)
    /\ \A i \in 1 .. Len(a) : a[i].n * b[i].d = b[i].n * a[i].d

\* C24: weekly Sharpe and Sortino are computed from the day-over-day
\* returns of the weekly slice only, and both are undefined whenever the
\* slice has fewer than 3 valid daily values, however many rows the whole
\* ledger has.
C24_SliceOnly ==
    week_run.pc = "done" =>
        /\ week_run.sharpe.defined =>
              SameRatios(week_run.sharpe.rets, RatiosOf(ValidOfWeek))
        /\ week_run.sortino.defined =>
              SameRatios(week_run.sortino.rets, RatiosOf(ValidOfWeek))
        /\ Len(ValidOfWeek) < 3 =>
              ~week_run.sharpe.defined /\ ~week_run.sortino.defined

\* the table the ratios are taken from: the week's rows when there are three
\* or more, the whole ledger otherwise
ValidOfUsed ==
    IF Len(week_run.eod_week) >= 3 THEN ValidOfWeek ELSE ValidOfLedger

\* C24 as amended: the ratios come from the returns of the weekly slice when
\* it has three rows or more and from those of the whole ledger otherwise
\* (Sharpe is then defined as soon as that table has 3 valid positive
\* values), and both are undefined whenever the table used has fewer than 3
\* valid daily values.
C24_SliceOrLedger ==
    week_run.pc = "done" =>
        /\ Len(ValidOfUsed) >= 3 =>
              /\ week_run.sharpe.defined
              /\ SameRatios(week_run.sharpe.rets, RatiosOf(ValidOfUsed))
        /\ week_run.sortino.defined =>
              SameRatios(week_run.sortino.rets, RatiosOf(ValidOfUsed))
        /\ Len(ValidOfUsed) < 3 =>
              ~week_run.sharpe.defined /\ ~week_run.sortino.defined

\* the week has two rows, the ledger four valid values with two falls, and
\* both ratios are defined
C24_Witness ==
    /\ week_run.pc = "done"
    /\ Len(week_run.eod_week) = 2
    /\ Len(ValidOfLedger) = 4
    /\ week_run.sharpe.defined /\ week_run.sortino.defined

----------------------------------------------------------------------------
(* Specifications *)

Init == InitLedger /\ stop = NoStop /\ NoReport /\ NoFiles /\ NoRuns

Next == NextLedger

Spec == Init /\ [][Next]_vars

\* the stop-loss evaluators applied to one position
InitS == InitStop /\ InitLedger /\ NoReport /\ NoFiles /\ NoRuns

SpecStop == InitS /\ [][NextStop]_vars

\* one run of the daily report
SpecReport == InitReport /\ [][NextReport]_vars

\* EOD runs and the valuation of the daily report over the same files
SpecEod == InitEod /\ [][NextEod]_vars

\* successive runs of the daily report while days pass, prices arrive and the
\* holdings are edited
SpecSnap == InitSnap /\ [][NextSnap]_vars

\* successive runs of the watchlist logger
SpecWatch == InitWatch /\ [][NextWatch]_vars

\* two EOD runs racing on the ledger file
SpecRace == InitRace /\ [][NextRace]_vars

\* one weekly report over a ledger of earlier EOD runs
SpecWeek == InitWeek /\ [][NextWeek]_vars

====
